---- MODULE Spec2Model ----
(***************************************************************************)
(* A model of the Af Maay archive front end (React pages of src/) and of   *)
(* the entry store behind its HTTP API.  Text is a sequence of one-letter  *)
(* strings, so that emptiness, trimming and substring matching are         *)
(* computed rather than assumed.                                           *)
(***************************************************************************)
EXTENDS Naturals, Sequences, FiniteSets

VARIABLES
  \* DictionaryPage state (useState cells)
  searchQuery, searchLanguage, soundGroupFilter, verifiedOnly,
  entries, loading,
  \* the pending debounce timeout and the closure it captured
  timer,
  \* GET /dictionary requests in flight, oldest first
  fetches,
  \* the server's entry collection
  store,
  \* last transient notification (sonner toast)
  toast,
  \* history variables: of the response race (superseded: how many of the
  \* oldest requests in flight are older than a response already shown) and of
  \* the typing bursts; `track` names the history a specification records
  superseded, shownStale, lastDelivered, burst, firedAfterBurst, track,
  \* the mounted page of the voice flows and its input text:
  \* ConversationPage.inputText, TranslatePage.sourceText
  page, inputText, sourceText,
  \* voice capture: isRecording, getUserMedia calls pending, the state of
  \* mediaRecorderRef.current, the dictionary's 3 s recorders still recording,
  \* POST /voice/transcribe in flight, and the last transcription received
  isRecording, micPending, recorder, dictRecorders, transcribing, heard,
  \* AuthProvider: the signed-in user (NoUser for null), GET /auth/me in
  \* flight, POST /auth/logout in flight ("no", "sent", "handled"), and the
  \* identity the server holds for the browser's session cookie
  user, authPending, logoutPending, session,
  \* DictionaryPage dialogs: showAddDialog, editingEntry (0 for null), the
  \* open WordDialog's formData and loading, the browser's "fill out this
  \* field" bubble, the POST/PUT /dictionary requests in flight,
  \* suggestingEntry (0 for null), and a history bit that flips at every
  \* submit event of a word or grammar form
  showAddDialog, editingEntry, wordForm, wordLoading, hint, saves,
  suggestingEntry, submitTick,
  \* AdminPage state, its fetchData rounds and mutation requests in flight,
  \* and AddGrammarDialog's open, formData, loading
  stats, pendingEntries, vocabularyGaps, grammarRules, adminLoading,
  rounds, mutations, grammarOpen, grammarForm, grammarLoading,
  \* the server's grammar collection and its next entry id
  grammarStore, nextId,
  \* history variables of the moderation: ids created by non-privileged
  \* users, ids an approve request succeeded on, ids that requests of both
  \* admins had settled when a refresh applied since was requested, ids an
  \* approve or reject of this admin, and of another admin, was handled for
  userCreated, approved, healed, byThis, byOther,
  \* SuggestEditDialog: its formData and loading, the POST
  \* /dictionary/{id}/suggest-edit requests in flight, and the server's
  \* collection of edit suggestions
  suggestForm, suggestLoading, suggests, suggestionStore,
  \* the server's vocabulary-gap collection, and the state of the
  \* VocabularyGapCard of each gap (suggestion, showInput)
  gapStore, gapCards,
  \* the latest approve request of another client of the API that the
  \* server refused, and its answer
  approval,
  \* ConversationPage: messages, loading and conversationId, and its POST
  \* /chat request (with the messages at the time of the send)
  messages, chatLoading, conversationId, chat,
  \* BulkUploadDialog: open, jsonData, loading
  bulkOpen, jsonData, bulkLoading,
  \* the URL fragment of the page load, AuthCallback (hasProcessed.current,
  \* the runs of its effect, its POST /auth/session, error, and the 2 s
  \* timeout), LoginPage's POST /auth/login, and the server's answer to the
  \* GET /auth/me of checkAuth
  urlHash, hasProcessed, effectRuns, exchange, cbError, cbTimer, loginReq, me,
  \* history variable of the sign-ins: "in" since the latest user set from a
  \* sign-in response, "out" since the latest logout that completed
  lastAuth,
  \* DonatePage: formData (donor), selectedAmount, customAmount, loading, and
  \* the POST /donations/create-checkout requests issued
  donor, selectedAmount, customAmount, donateLoading, checkouts,
  \* DictionaryCard of each listed entry: isPlaying, its POST
  \* /voice/synthesize, and its Audio element
  isPlaying, synth, audio

voiceVars == <<page, inputText, sourceText, isRecording, micPending,
               recorder, dictRecorders, transcribing, heard>>

authVars == <<user, authPending, logoutPending, session>>

dialogVars == <<showAddDialog, editingEntry, wordForm, wordLoading, hint,
                saves, suggestingEntry, submitTick>>

adminVars == <<stats, pendingEntries, vocabularyGaps, grammarRules,
               adminLoading, rounds, mutations, grammarOpen, grammarForm,
               grammarLoading>>

serverVars == <<grammarStore, nextId>>

moderationGhosts == <<userCreated, approved, healed, byThis, byOther>>

suggestVars == <<suggestForm, suggestLoading, suggests, suggestionStore>>

\* the scenario tag with the state of the suggest dialog and of the gaps: what
\* the search, voice and word-form actions never set
gapVars == <<gapStore, gapCards, approval>>

chatVars == <<messages, chatLoading, conversationId, chat>>

bulkVars == <<bulkOpen, jsonData, bulkLoading>>

\* the state of the pages and components that have their own scenarios
callbackVars == <<urlHash, hasProcessed, effectRuns, exchange, cbError,
                  cbTimer, loginReq, me>>

donateVars == <<donor, selectedAmount, customAmount, donateLoading,
                checkouts>>

audioVars == <<isPlaying, synth, audio>>

laterVars == <<callbackVars, donateVars, audioVars, lastAuth>>

elsewhere == <<track, suggestVars, gapVars, chatVars, bulkVars, laterVars>>

\* the same without the suggest dialog, and without the gaps
beyondSuggest == <<track, gapVars, chatVars, bulkVars, laterVars>>

\* (the handlers of AdminPage that use it set or keep the upload dialog)
beyondGaps == <<track, suggestVars, approval, chatVars, laterVars>>

\* what the search actions of DictionaryPage leave alone
offSearch == <<voiceVars, authVars, dialogVars, adminVars, serverVars,
               moderationGhosts>>

\* what the voice actions leave alone, besides the search state
offVoice == <<authVars, dialogVars, adminVars, serverVars, moderationGhosts>>

vars == <<searchQuery, searchLanguage, soundGroupFilter, verifiedOnly,
          entries, loading, timer, fetches, store, toast,
          superseded, shownStale, lastDelivered, burst, firedAfterBurst,
          elsewhere, voiceVars, authVars, dialogVars, adminVars, serverVars,
          moderationGhosts>>

----------------------------------------------------------------------------
\* Bounds of the model

\* GET /dictionary requests that may be in flight at once
MaxInflight == 2

\* Search texts the user types
Queries == { <<>>, <<"b">> }

\* Values of the language select (part_000:543-545)
Languages == { "both", "maay", "en" }

\* Options of the sound-group select (part_000:554-560)
GroupOptions == { "all", "k", "t", "dh", "n", "b", "r" }

\* The options of the sound-group select the search scenario switches between
UsedGroupOptions == { "all", "k" }

\* The language sides the search scenario switches between
UsedLanguages == { "both", "maay" }

NoToast == [kind |-> "none", msg |-> "none"]

Toast(k, m) == [kind |-> k, msg |-> m]

----------------------------------------------------------------------------
\* Text helpers

\* JavaScript truthiness of a string: non-empty
Truthy(s) == Len(s) > 0

\* String.prototype.trim over the letters and the blank
RECURSIVE Trim(_)
Trim(s) ==
  IF s = << >> THEN s
  ELSE IF Head(s) = " " THEN Trim(Tail(s))
  ELSE IF s[Len(s)] = " " THEN Trim(SubSeq(s, 1, Len(s) - 1))
  ELSE s

\* s occurs in t as a contiguous run
IsSubstring(s, t) ==
  \E i \in 0..Len(t) :
    /\ i + Len(s) <= Len(t)
    /\ \A j \in 1..Len(s) : t[i + j] = s[j]

----------------------------------------------------------------------------
\* fetchEntries: the query string

\* URLSearchParams built by fetchEntries, as the sequence of appended pairs
BuildParamsNoLanguageGuard(q, lang, sg, vo) ==
  (IF Truthy(q) THEN << <<"search", q>> >> ELSE << >>)
  \o << <<"language", lang>> >>
  \o (IF sg # "" THEN << <<"sound_group", sg>> >> ELSE << >>)
  \o (IF vo THEN << <<"verified_only", "true">> >> ELSE << >>)

BuildParamsNoVerifiedOnly(q, lang, sg, vo) ==
  (IF Truthy(q) THEN << <<"search", q>> >> ELSE << >>)
  \o (IF lang # "both" THEN << <<"language", lang>> >> ELSE << >>)
  \o (IF sg # "" THEN << <<"sound_group", sg>> >> ELSE << >>)

BuildParams(q, lang, sg, vo) ==
  (IF Truthy(q) THEN << <<"search", q>> >> ELSE << >>)
  \o (IF lang # "both" THEN << <<"language", lang>> >> ELSE << >>)
  \o (IF sg # "" THEN << <<"sound_group", sg>> >> ELSE << >>)
  \o (IF vo THEN << <<"verified_only", "true">> >> ELSE << >>)

HasParam(params, key) == \E i \in 1..Len(params) : params[i][1] = key

ParamCount(params, key) ==
  Cardinality({ i \in 1..Len(params) : params[i][1] = key })

ParamValue(params, key) ==
  LET i == CHOOSE k \in 1..Len(params) : params[k][1] = key
  IN  params[i][2]

----------------------------------------------------------------------------
\* The entry store behind GET /dictionary

Entry(id, word, tr, sg, ver) ==
  [entry_id |-> id, maay_word |-> word, english_translation |-> tr,
   sound_group |-> sg, is_verified |-> ver]

SeedStore ==
  { Entry(1, <<"b", "a">>, <<"c">>, "k", TRUE),
    Entry(2, <<"b">>, <<"a">>, "", FALSE) }

MatchesText(e, q, lang) ==
  CASE lang = "maay" -> IsSubstring(q, e.maay_word)
    [] lang = "en"   -> IsSubstring(q, e.english_translation)
    [] OTHER         -> \/ IsSubstring(q, e.maay_word)
                        \/ IsSubstring(q, e.english_translation)

\* The result set of GET /dictionary?params: filters are conjunctive
Search(st, params) ==
  { e \in st :
      /\ HasParam(params, "search") =>
           MatchesText(e, ParamValue(params, "search"),
                       IF HasParam(params, "language")
                         THEN ParamValue(params, "language") ELSE "both")
      /\ HasParam(params, "sound_group") =>
           e.sound_group = ParamValue(params, "sound_group")
      /\ HasParam(params, "verified_only") => e.is_verified }

----------------------------------------------------------------------------
\* DictionaryPage: search, filters, debounce

Closure(q, lang, sg, vo) ==
  [armed |-> TRUE, q |-> q, lang |-> lang, sg |-> sg, vo |-> vo]

NoTimer ==
  [armed |-> FALSE, q |-> <<>>, lang |-> "both", sg |-> "", vo |-> FALSE]

\* useEffect on [searchQuery]: cleanup clears the old timeout, a new one is
\* set whose callback closes over the render's fetchEntries
ArmDebounceKeepOld(old, q, lang, sg, vo) ==
  IF old.armed THEN old ELSE Closure(q, lang, sg, vo)

ArmDebounce(old, q, lang, sg, vo) == Closure(q, lang, sg, vo)

\* setEntries(response.data)
ApplyResponseUnlessStale(cur, data, stale) == IF stale THEN cur ELSE data

ApplyResponse(cur, data, stale) == data

\* fetchEntries() up to its await: setLoading(true) and the GET
IssueFetch(q, lang, sg, vo) ==
  /\ Len(fetches) < MaxInflight
  /\ loading' = TRUE
  /\ fetches' = Append(fetches, BuildParams(q, lang, sg, vo))

\* useEffect on [searchLanguage, soundGroupFilter, verifiedOnly]: the render's
\* fetchEntries is called at once; the debounce timeout is not touched
FilterEffectDebounced(q, lang, sg, vo) ==
  /\ timer' = Closure(q, lang, sg, vo)
  /\ UNCHANGED <<fetches, loading>>

FilterEffect(q, lang, sg, vo) ==
  /\ IssueFetch(q, lang, sg, vo)
  /\ UNCHANGED timer

Ghosts == <<superseded, shownStale, lastDelivered, elsewhere>>

\* onChange of the search input: setSearchQuery(e.target.value)
TypeQuery(q) ==
  /\ q # searchQuery
  /\ searchQuery' = q
  /\ timer' = ArmDebounce(timer, q, searchLanguage, soundGroupFilter,
                          verifiedOnly)
  /\ burst' = IF track # "burst" THEN burst
              ELSE IF ~timer.armed THEN 1
              ELSE IF burst < 2 THEN burst + 1 ELSE 2
  /\ firedAfterBurst' = FALSE
  /\ UNCHANGED <<searchLanguage, soundGroupFilter, verifiedOnly, entries,
                 loading, fetches, store, toast>>
  /\ UNCHANGED Ghosts
  /\ UNCHANGED offSearch

\* Select onValueChange={setSearchLanguage}, then the filter effect
SetSearchLanguage(l) ==
  /\ l # searchLanguage
  /\ searchLanguage' = l
  /\ FilterEffect(searchQuery, l, soundGroupFilter, verifiedOnly)
  /\ UNCHANGED <<searchQuery, soundGroupFilter, verifiedOnly, entries,
                 store, toast, burst, firedAfterBurst>>
  /\ UNCHANGED Ghosts
  /\ UNCHANGED offSearch

\* The select shows "all" for no group: v === "all" ? "" : v
FromGroupSelect(v) == IF v = "all" THEN "" ELSE v

\* Select onValueChange: setSoundGroupFilter(v === "all" ? "" : v)
SetSoundGroupFilter(v) ==
  /\ FromGroupSelect(v) # soundGroupFilter
  /\ soundGroupFilter' = FromGroupSelect(v)
  /\ FilterEffect(searchQuery, searchLanguage, FromGroupSelect(v),
                  verifiedOnly)
  /\ UNCHANGED <<searchQuery, searchLanguage, verifiedOnly, entries,
                 store, toast, burst, firedAfterBurst>>
  /\ UNCHANGED Ghosts
  /\ UNCHANGED offSearch

\* Verified button: setVerifiedOnly(!verifiedOnly)
ToggleVerifiedOnly ==
  /\ verifiedOnly' = ~verifiedOnly
  /\ FilterEffect(searchQuery, searchLanguage, soundGroupFilter,
                  ~verifiedOnly)
  /\ UNCHANGED <<searchQuery, searchLanguage, soundGroupFilter, entries,
                 store, toast, burst, firedAfterBurst>>
  /\ UNCHANGED Ghosts
  /\ UNCHANGED offSearch

\* The 300 ms timeout expires: fetchEntries of the captured render
DebounceFire ==
  /\ timer.armed
  /\ timer' = NoTimer
  /\ IssueFetch(timer.q, timer.lang, timer.sg, timer.vo)
  /\ UNCHANGED <<searchQuery, searchLanguage, soundGroupFilter, verifiedOnly,
                 entries, store, toast>>
  /\ burst' = 0
  /\ firedAfterBurst' = (burst >= 2)
  /\ UNCHANGED Ghosts
  /\ UNCHANGED offSearch

RemoveAt(s, i) == [k \in 1..(Len(s) - 1) |-> IF k < i THEN s[k] ELSE s[k + 1]]

\* The response of the i-th request in flight arrives with a 2xx
FetchSucceeds(i) ==
  /\ i \in 1..Len(fetches)
  /\ LET data == Search(store, fetches[i])
     IN  /\ entries' = ApplyResponse(entries, data, i <= superseded)
         /\ lastDelivered' = data
  /\ loading' = FALSE
  /\ fetches' = RemoveAt(fetches, i)
  /\ shownStale' = (i <= superseded)
  /\ superseded' = IF track # "race" THEN superseded
                   ELSE IF i <= superseded THEN superseded - 1 ELSE i - 1
  /\ UNCHANGED elsewhere
  /\ UNCHANGED <<searchQuery, searchLanguage, soundGroupFilter, verifiedOnly,
                 timer, store, toast, burst, firedAfterBurst>>
  /\ UNCHANGED offSearch

\* The i-th request in flight fails: toast, entries kept
FetchFails(i) ==
  /\ i \in 1..Len(fetches)
  /\ toast' = Toast("error", "Failed to load dictionary")
  /\ loading' = FALSE
  /\ fetches' = RemoveAt(fetches, i)
  /\ superseded' = IF i <= superseded THEN superseded - 1 ELSE superseded
  /\ UNCHANGED elsewhere
  /\ UNCHANGED <<searchQuery, searchLanguage, soundGroupFilter, verifiedOnly,
                 entries, timer, store, shownStale, lastDelivered,
                 burst, firedAfterBurst>>
  /\ UNCHANGED offSearch

\* The user of AuthContext: null, or the record GET /auth/me returns
NoUser == [signedIn |-> FALSE, is_admin |-> FALSE, is_contributor |-> FALSE]

User(admin, contributor) ==
  [signedIn |-> TRUE, is_admin |-> admin, is_contributor |-> contributor]

Users == { User(a, c) : a \in BOOLEAN, c \in BOOLEAN }

\* formData of the word dialogs (the required fields) and of the grammar
\* dialog, as first rendered by the add dialogs
NoForm == [maay_word |-> << >>, english_translation |-> << >>]

NoRule == [title |-> << >>, content |-> << >>]

\* The grammar collection the server starts with
SeedGrammar == { [title |-> <<"t">>, content |-> <<"c">>] }

\* formData of a SuggestEditDialog that is not mounted
NoSuggestion ==
  [maay_word |-> << >>, english_translation |-> << >>, reason |-> << >>]

\* The vocabulary gaps the translation collaborator has recorded: one without
\* and one with a suggested rendering
Gap(id, term, candidate, status) ==
  [gap_id |-> id, english_term |-> term, suggested_maay |-> candidate,
   status |-> status]

SeedGapStore ==
  { Gap(1, <<"e">>, << >>, "pending"), Gap(2, <<"f">>, <<"m">>, "pending") }

GapIds == { g.gap_id : g \in SeedGapStore }

\* A VocabularyGapCard as mounted for gap g, and the cards of an AdminPage
\* that lists no gap
CardOf(g) == [suggestion |-> g.suggested_maay, showInput |-> FALSE]

NoCard == [suggestion |-> << >>, showInput |-> FALSE]

\* A chat message (timestamps are not modelled), the two messages the page
\* writes itself, and no request
Message(role, content) == [role |-> role, content |-> content]

Welcome == Message("assistant", <<"W">>)

Cleared == Message("assistant", <<"C">>)

NoChat == [st |-> "none"]

NoApproval == [id |-> 0, answer |-> "none"]

NoCards == [id \in GapIds |-> NoCard]

\* AuthProvider with no user and no request in flight
AuthIdle ==
  /\ user = NoUser
  /\ authPending = FALSE
  /\ logoutPending = "no"
  /\ session = NoUser

\* DictionaryPage with no dialog open and no save in flight
DialogsIdle ==
  /\ showAddDialog = FALSE
  /\ editingEntry = 0
  /\ wordForm = NoForm
  /\ wordLoading = FALSE
  /\ hint = FALSE
  /\ saves = << >>
  /\ suggestingEntry = 0
  /\ submitTick = 0
  /\ suggestForm = NoSuggestion
  /\ suggestLoading = FALSE
  /\ suggests = << >>

\* AdminPage not mounted
AdminIdle ==
  /\ stats = "null"
  /\ pendingEntries = {}
  /\ vocabularyGaps = {}
  /\ grammarRules = {}
  /\ adminLoading = FALSE
  /\ rounds = << >>
  /\ mutations = << >>
  /\ grammarOpen = FALSE
  /\ grammarForm = NoRule
  /\ grammarLoading = FALSE
  /\ gapCards = NoCards

\* The server next to the seed entries, and empty histories
ServerInit ==
  /\ grammarStore = SeedGrammar
  /\ nextId = 3
  /\ suggestionStore = {}
  /\ gapStore = SeedGapStore
  /\ approval = NoApproval
  /\ userCreated = {}
  /\ approved = {}
  /\ healed = {}
  /\ byThis = {}
  /\ byOther = {}

\* A page load without a fragment, no AuthCallback and no LoginPage
NoRequest == [st |-> "none"]

NoExchange == [st |-> "none", issued |-> 0]

CallbackIdle ==
  /\ urlHash = << >>
  /\ hasProcessed = FALSE
  /\ effectRuns = 0
  /\ exchange = NoExchange
  /\ lastAuth = "none"  /\ cbError = FALSE
  /\ cbTimer = FALSE
  /\ loginReq = NoRequest
  /\ me = NoRequest

\* DonatePage: useState initial values
NoDonor == [donor_name |-> << >>, donor_email |-> << >>]

DonateIdle ==
  /\ donor = NoDonor
  /\ selectedAmount = 25
  /\ customAmount = << >>
  /\ donateLoading = FALSE
  /\ checkouts = << >>

\* The cards of the dictionary entries: useState(false), nothing requested
AudioCards == 1..2

AudioIdle ==
  /\ isPlaying = [c \in AudioCards |-> FALSE]
  /\ synth = [c \in AudioCards |-> << >>]
  /\ audio = [c \in AudioCards |-> "none"]

LaterIdle == CallbackIdle /\ DonateIdle /\ AudioIdle

\* BulkUploadDialog: useState initial values
BulkIdle ==
  /\ bulkOpen = FALSE
  /\ jsonData = << >>
  /\ bulkLoading = FALSE

\* ConversationPage after its mount effects (the welcome message), or no
\* ConversationPage
ChatIdle ==
  /\ messages = IF page = "conversation" THEN << Welcome >> ELSE << >>
  /\ chatLoading = FALSE
  /\ conversationId = 0
  /\ chat = NoChat

\* No voice capture: the page's initial voice state
VoiceIdle ==
  /\ inputText = << >>
  /\ sourceText = << >>
  /\ isRecording = FALSE
  /\ micPending = 0
  /\ recorder = "none"
  /\ dictRecorders = 0
  /\ transcribing = 0
  /\ heard = [ok |-> FALSE, text |-> << >>]

\* DictionaryPage right after mounting: both effects have run
InitSearch ==
  /\ searchQuery = <<>>
  /\ searchLanguage = "both"
  /\ soundGroupFilter = ""
  /\ verifiedOnly = FALSE
  /\ entries = {}
  /\ loading = TRUE
  /\ timer = Closure(<<>>, "both", "", FALSE)
  /\ fetches = << BuildParams(<<>>, "both", "", FALSE) >>
  /\ store = SeedStore
  /\ toast = NoToast
  /\ superseded = 0
  /\ shownStale = FALSE
  /\ lastDelivered = {}
  /\ burst = 0
  /\ firedAfterBurst = FALSE
  /\ track = "burst"
  /\ page = "dictionary"
  /\ VoiceIdle
  /\ AuthIdle
  /\ DialogsIdle
  /\ AdminIdle
  /\ ServerInit
  /\ ChatIdle
  /\ BulkIdle
  /\ LaterIdle

NextSearch ==
  \/ \E q \in Queries : TypeQuery(q)
  \/ \E l \in UsedLanguages : SetSearchLanguage(l)
  \/ \E v \in UsedGroupOptions : SetSoundGroupFilter(v)
  \/ ToggleVerifiedOnly
  \/ DebounceFire
  \/ \E i \in 1..MaxInflight : FetchSucceeds(i)
  \/ \E i \in 1..MaxInflight : FetchFails(i)

SpecSearch == InitSearch /\ [][NextSearch]_vars

\* The same page, recording the order of the responses instead of the bursts
InitRace ==
  /\ searchQuery = <<>>
  /\ searchLanguage = "both"
  /\ soundGroupFilter = ""
  /\ verifiedOnly = FALSE
  /\ entries = {}
  /\ loading = TRUE
  /\ timer = Closure(<<>>, "both", "", FALSE)
  /\ fetches = << BuildParams(<<>>, "both", "", FALSE) >>
  /\ store = SeedStore
  /\ toast = NoToast
  /\ superseded = 0
  /\ shownStale = FALSE
  /\ lastDelivered = {}
  /\ burst = 0
  /\ firedAfterBurst = FALSE
  /\ track = "race"
  /\ page = "dictionary"
  /\ VoiceIdle
  /\ AuthIdle
  /\ DialogsIdle
  /\ AdminIdle
  /\ ServerInit
  /\ ChatIdle
  /\ BulkIdle
  /\ LaterIdle

SpecRace == InitRace /\ [][NextSearch]_vars

----------------------------------------------------------------------------
\* fetchEntries over every selection of text and filters

\* Search texts of the parameter check: empty, blank, a word
ParamQueries == { <<>>, <<" ">>, <<"b", "a">> }

\* fetchEntries() called by the current render, as after a saved word
\* (part_000:433, 445)
Refetch ==
  /\ IssueFetch(searchQuery, searchLanguage, soundGroupFilter, verifiedOnly)
  /\ UNCHANGED <<searchQuery, searchLanguage, soundGroupFilter, verifiedOnly,
                 entries, timer, store, toast, burst, firedAfterBurst>>
  /\ UNCHANGED Ghosts
  /\ UNCHANGED offSearch

\* Any selection the controls can produce, with nothing in flight
InitParams ==
  /\ searchQuery \in ParamQueries
  /\ searchLanguage \in Languages
  /\ soundGroupFilter \in { FromGroupSelect(v) : v \in GroupOptions }
  /\ verifiedOnly \in BOOLEAN
  /\ entries = {}
  /\ loading = FALSE
  /\ timer = NoTimer
  /\ fetches = << >>
  /\ store = SeedStore
  /\ toast = NoToast
  /\ superseded = 0
  /\ shownStale = FALSE
  /\ lastDelivered = {}
  /\ burst = 0
  /\ firedAfterBurst = FALSE
  /\ track = "burst"
  /\ page = "dictionary"
  /\ VoiceIdle
  /\ AuthIdle
  /\ DialogsIdle
  /\ AdminIdle
  /\ ServerInit
  /\ ChatIdle
  /\ BulkIdle
  /\ LaterIdle

NextParams ==
  \/ Refetch
  \/ \E i \in 1..MaxInflight : FetchSucceeds(i)
  \/ \E i \in 1..MaxInflight : FetchFails(i)

SpecParams == InitParams /\ [][NextParams]_vars

----------------------------------------------------------------------------
\* Voice input: DictionaryPage.handleVoiceSearch, ConversationPage and
\* TranslatePage startVoiceInput / stopVoiceInput

\* Captures (permission prompts, recorders, transcriptions) alive at once
MaxCaptures == 2

VoicePages == { "dictionary", "conversation", "translate" }

\* Texts typed into the conversation and translate inputs
TypedTexts == { << >>, <<"x">> }

\* Texts typed into the conversation input when messages are sent
ChatTexts == { << >>, <<" ">>, <<"x">>, <<"y">> }

\* response.data.text of POST /voice/transcribe
Transcripts == { << >>, <<"h", "i">> }

Captures ==
  micPending + dictRecorders + transcribing
    + (IF recorder = "recording" THEN 1 ELSE 0)

\* The input text of the mounted page
PageText ==
  CASE page = "dictionary"   -> searchQuery
    [] page = "conversation" -> inputText
    [] OTHER                 -> sourceText

\* if (response.data.text) setText(response.data.text)
TranscribedTextUnguarded(prev, text) == text

TranscribedText(prev, text) == IF Truthy(text) THEN text ELSE prev

searchState == <<searchQuery, searchLanguage, soundGroupFilter, verifiedOnly,
                 entries, loading, timer, fetches, burst, firedAfterBurst>>

\* onChange of the conversation / translate input
TypeText(t) ==
  /\ page # "dictionary"
  /\ page = "conversation" => ~chatLoading
  /\ t # PageText
  /\ IF page = "conversation"
       THEN inputText' = t /\ UNCHANGED sourceText
       ELSE sourceText' = t /\ UNCHANGED inputText
  /\ UNCHANGED <<page, isRecording, micPending, recorder, dictRecorders,
                 transcribing, heard, store, toast>>
  /\ UNCHANGED searchState
  /\ UNCHANGED Ghosts
  /\ UNCHANGED offVoice

\* The mic button: handleVoiceSearch, or startVoiceInput while the button is
\* not in its stop mode; getUserMedia is awaited
StartCapture ==
  /\ Captures < MaxCaptures
  /\ page = "dictionary" \/ ~isRecording
  /\ micPending' = micPending + 1
  /\ UNCHANGED <<page, inputText, sourceText, isRecording, recorder,
                 dictRecorders, transcribing, heard, store, toast>>
  /\ UNCHANGED searchState
  /\ UNCHANGED Ghosts
  /\ UNCHANGED offVoice

\* getUserMedia resolves: the recorder starts
MicGranted ==
  /\ micPending > 0
  /\ micPending' = micPending - 1
  /\ IF page = "dictionary"
       THEN /\ dictRecorders' = dictRecorders + 1
            /\ toast' = Toast("info", "Listening for 3 seconds...")
            /\ UNCHANGED <<recorder, isRecording>>
       ELSE /\ recorder' = "recording"
            /\ isRecording' = TRUE
            /\ UNCHANGED <<dictRecorders, toast>>
  /\ UNCHANGED <<page, inputText, sourceText, transcribing, heard, store>>
  /\ UNCHANGED searchState
  /\ UNCHANGED Ghosts
  /\ UNCHANGED offVoice

\* getUserMedia rejects
MicDenied ==
  /\ micPending > 0
  /\ micPending' = micPending - 1
  /\ toast' = Toast("error", "Could not access microphone")
  /\ UNCHANGED <<page, inputText, sourceText, isRecording, recorder,
                 dictRecorders, transcribing, heard, store>>
  /\ UNCHANGED searchState
  /\ UNCHANGED Ghosts
  /\ UNCHANGED offVoice

\* The dictionary's 3 s timeout: recorder.stop(), onstop posts the audio
StopDictRecorder ==
  /\ page = "dictionary"
  /\ dictRecorders > 0
  /\ dictRecorders' = dictRecorders - 1
  /\ transcribing' = transcribing + 1
  /\ UNCHANGED <<page, inputText, sourceText, isRecording, micPending,
                 recorder, heard, store, toast>>
  /\ UNCHANGED searchState
  /\ UNCHANGED Ghosts
  /\ UNCHANGED offVoice

\* The mic button in its stop mode: mediaRecorderRef.current.stop(), onstop
\* posts the audio (stop() of a recorder already stopped throws and changes
\* nothing)
StopVoiceInput ==
  /\ page # "dictionary"
  /\ isRecording
  /\ recorder = "recording"
  /\ recorder' = "inactive"
  /\ transcribing' = transcribing + 1
  /\ UNCHANGED <<page, inputText, sourceText, isRecording, micPending,
                 dictRecorders, heard, store, toast>>
  /\ UNCHANGED searchState
  /\ UNCHANGED Ghosts
  /\ UNCHANGED offVoice

\* setSearchQuery(q) from the transcription: the debounce effect runs when
\* the text changed
VoiceSetsQuery(q) ==
  /\ searchQuery' = q
  /\ timer' = IF q # searchQuery
                THEN ArmDebounce(timer, q, searchLanguage, soundGroupFilter,
                                 verifiedOnly)
                ELSE timer
  /\ UNCHANGED <<searchLanguage, soundGroupFilter, verifiedOnly, entries,
                 loading, fetches, burst, firedAfterBurst>>

\* POST /voice/transcribe answers 2xx with text t (possibly empty)
TranscribeOk(t) ==
  /\ transcribing > 0
  /\ transcribing' = transcribing - 1
  /\ heard' = [ok |-> TRUE, text |-> t]
  /\ CASE page = "dictionary" ->
            /\ VoiceSetsQuery(TranscribedText(searchQuery, t))
            /\ toast' = IF Truthy(t) THEN Toast("success", "Voice search: (text)")
                                     ELSE toast
            /\ UNCHANGED <<inputText, sourceText, isRecording>>
       [] page = "conversation" ->
            /\ inputText' = TranscribedText(inputText, t)
            /\ toast' = IF Truthy(t) THEN Toast("success", "Voice captured!")
                                     ELSE toast
            /\ isRecording' = FALSE
            /\ UNCHANGED sourceText
            /\ UNCHANGED searchState
       [] OTHER ->
            /\ sourceText' = TranscribedText(sourceText, t)
            /\ toast' = IF Truthy(t) THEN Toast("success", "Voice captured!")
                                     ELSE toast
            /\ isRecording' = FALSE
            /\ UNCHANGED inputText
            /\ UNCHANGED searchState
  /\ UNCHANGED <<page, micPending, recorder, dictRecorders, store>>
  /\ UNCHANGED Ghosts
  /\ UNCHANGED offVoice

\* POST /voice/transcribe fails
TranscribeFails ==
  /\ transcribing > 0
  /\ transcribing' = transcribing - 1
  /\ heard' = [ok |-> FALSE, text |-> << >>]
  /\ IF page = "dictionary"
       THEN /\ toast' = Toast("error", "Voice search failed")
            /\ UNCHANGED isRecording
       ELSE /\ toast' = Toast("error", "Transcription failed")
            /\ isRecording' = FALSE
  /\ UNCHANGED <<page, inputText, sourceText, micPending, recorder,
                 dictRecorders, store>>
  /\ UNCHANGED searchState
  /\ UNCHANGED Ghosts
  /\ UNCHANGED offVoice

\* One of the three pages, just mounted
InitVoice ==
  /\ page \in VoicePages
  /\ VoiceIdle
  /\ AuthIdle
  /\ DialogsIdle
  /\ AdminIdle
  /\ ServerInit
  /\ ChatIdle
  /\ BulkIdle
  /\ LaterIdle
  /\ searchQuery = << >>
  /\ searchLanguage = "both"
  /\ soundGroupFilter = ""
  /\ verifiedOnly = FALSE
  /\ entries = {}
  /\ loading = (page = "dictionary")
  /\ timer = IF page = "dictionary" THEN Closure(<<>>, "both", "", FALSE)
                                   ELSE NoTimer
  /\ fetches = IF page = "dictionary"
                 THEN << BuildParams(<<>>, "both", "", FALSE) >> ELSE << >>
  /\ store = SeedStore
  /\ toast = NoToast
  /\ superseded = 0
  /\ shownStale = FALSE
  /\ lastDelivered = {}
  /\ burst = 0
  /\ firedAfterBurst = FALSE
  /\ track = "voice"

NextVoice ==
  \/ \E q \in Queries : page = "dictionary" /\ TypeQuery(q)
  \/ \E t \in TypedTexts : TypeText(t)
  \/ StartCapture
  \/ MicGranted
  \/ MicDenied
  \/ StopDictRecorder
  \/ StopVoiceInput
  \/ \E t \in Transcripts : TranscribeOk(t)
  \/ TranscribeFails
  \/ DebounceFire
  \/ \E i \in 1..MaxInflight : FetchSucceeds(i)
  \/ \E i \in 1..MaxInflight : FetchFails(i)

SpecVoice == InitVoice /\ [][NextVoice]_vars

----------------------------------------------------------------------------
\* Moderation: the entry collection behind the API, AdminPage, and the other
\* clients of the same collection

\* Entry ids the server hands out: the seed entries and the created ones
MaxEntries == 3

\* fetchData rounds of one AdminPage in flight at once
MaxRounds == 2

\* Mutation requests of one AdminPage in flight at once
MaxMutations == 1

IdsOf(st) == { e.entry_id : e \in st }

\* POST /dictionary: the new entry is verified iff its creator is privileged
CreateEntry(st, id, body, privileged) ==
  st \cup { Entry(id, body.maay_word, body.english_translation, "",
                  privileged) }

\* POST /dictionary/{id}/verify on an entry of the collection
VerifyEntry(st, id) ==
  { IF e.entry_id = id THEN [e EXCEPT !.is_verified = TRUE] ELSE e : e \in st }

\* DELETE /dictionary/{id}
DeleteEntry(st, id) == { e \in st : e.entry_id # id }

\* GET /admin/pending-entries
PendingOf(st) == { e \in st : ~e.is_verified }

\* The creator's privilege the server looks at
Privileged(u) == u.signedIn /\ u.is_admin

\* if (!formData.maay_word || !formData.english_translation)
WordFormIncompleteWordOnly(f) == ~Truthy(f.maay_word)

WordFormIncomplete(f) ==
  ~Truthy(f.maay_word) \/ ~Truthy(f.english_translation)

\* What users type into the word dialogs
WordForms ==
  { [maay_word |-> w, english_translation |-> t] :
      w \in { << >>, <<"b">> }, t \in { << >>, <<"a">> } }

\* Ids that some pending list may show: created unverified
EverPending == IdsOf(PendingOf(SeedStore)) \cup userCreated

\* Ids handed out that are not pending (verified or deleted)
Settled == (1..(nextId - 1)) \ IdsOf(PendingOf(store))

\* axios.get(`${API}/vocabulary-gaps?status=pending`): the status asked for
GapsStatusApproved == "approved"

GapsStatus == "pending"

\* GET /vocabulary-gaps?status= on the server: the gaps of that status, the
\* pending ones for a request without the parameter
ListGaps(gs, status) ==
  { g \in gs : g.status = IF status = "" THEN "pending" ELSE status }

\* The vocabulary-gap queue fetchData asks for
PendingGaps(gs) == ListGaps(gs, GapsStatus)

\* The gap with id in collection gs
GapOf(gs, id) == CHOOSE g \in gs : g.gap_id = id

\* POST /vocabulary-gaps/{id}/suggest on the server
AttachCandidate(gs, id, text) ==
  { IF g.gap_id = id THEN [g EXCEPT !.suggested_maay = text] ELSE g :
      g \in gs }

\* POST /vocabulary-gaps/{id}/approve on the server: the gap's side
MarkApproved(gs, id) ==
  { IF g.gap_id = id THEN [g EXCEPT !.status = "approved"] ELSE g : g \in gs }

\* The specifications in which gaps are suggested for and approved, those in
\* which no entry is created unverified, verified or deleted, and those in
\* which no grammar rule is added
WithGaps == track \in { "gaps", "gap-mutations" }

PendingKept ==
  track \in { "gaps", "gap-mutations", "grammar-mutations", "bulk-mutations" }

GrammarKept ==
  track \in { "gaps", "gap-mutations", "entry-mutations", "bulk-mutations" }

Mutation(op, id, body) ==
  [op |-> op, id |-> id, body |-> body, st |-> "sent", live |-> TRUE]

SuccessToast(op) ==
  CASE op = "verify"      -> Toast("success", "Entry approved!")
    [] op = "delete"      -> Toast("success", "Entry rejected")
    [] op = "gap-suggest" -> Toast("success", "Suggestion saved!")
    [] op = "gap-approve" ->
         Toast("success", "Gap approved and added to dictionary!")
    [] op = "bulk"        -> Toast("success", "response.data.message")
    [] OTHER              -> Toast("success", "Grammar rule added!")

\* A catch branch that reports like the try branch
FailureToastAsSuccess(op) == SuccessToast(op)

FailureToast(op) ==
  CASE op = "verify"      -> Toast("error", "Failed to approve entry")
    [] op = "delete"      -> Toast("error", "Failed to reject entry")
    [] op = "gap-suggest" -> Toast("error", "Failed to save suggestion")
    [] op = "gap-approve" -> Toast("error", "Failed to approve gap")
    [] op = "bulk"        -> Toast("error", "Bulk upload failed")
    [] OTHER              -> Toast("error", "Failed to add grammar rule")

\* One GET of a fetchData round: not answered yet, or answered with data
Unserved == [served |-> FALSE, data |-> {}]

\* The Promise.all of fetchData: its GETs whose answers the page lists (the
\* numbers of /admin/stats are not modelled), and for the history the ids
\* that requests of both admins had settled when it was requested.  Where
\* nothing changes a collection (the gaps under the moderation of entries,
\* the pending entries and the grammar under the handling of gaps, ...) its
\* GET has the same answer whenever it is served, and the round starts with
\* it
Served(data) == [served |-> TRUE, data |-> data]

PendingPart == IF PendingKept THEN Served(PendingOf(store)) ELSE Unserved

GrammarPart == IF GrammarKept THEN Served(grammarStore) ELSE Unserved

GapsPart == IF WithGaps THEN Unserved ELSE Served(PendingGaps(gapStore))

NewRound ==
  [pending |-> PendingPart, grammar |-> GrammarPart, gaps |-> GapsPart,
   after |-> IF track = "refresh" THEN Settled \cap byThis \cap byOther
                                  ELSE {}]

\* setPendingEntries(pendingRes.data)
SetPending(cur, data) == data

\* A handler that leaves the lists as they are after its request
FetchDataSkipped == UNCHANGED <<adminLoading, rounds>>

\* fetchData(), up to its await
FetchData ==
  /\ Len(rounds) < MaxRounds
  /\ adminLoading' = TRUE
  /\ rounds' = Append(rounds, NewRound)

adminLists == <<stats, pendingEntries, vocabularyGaps, grammarRules>>

grammarDialog == <<grammarOpen, grammarForm, grammarLoading>>

\* what the AdminPage actions leave alone
besideAdmin == <<searchState, superseded, shownStale, lastDelivered,
                 voiceVars, authVars, dialogVars>>

offAdmin == <<besideAdmin, elsewhere>>

\* onApprove(entry.entry_id) of a listed card: handleApproveEntry up to its
\* await
HandleApproveEntry(id) ==
  /\ page = "admin"
  /\ id \in IdsOf(pendingEntries)
  /\ Len(mutations) < MaxMutations
  /\ mutations' = Append(mutations, Mutation("verify", id, NoRule))
  /\ UNCHANGED <<adminLists, adminLoading, rounds, grammarDialog>>
  /\ UNCHANGED <<store, toast, serverVars, moderationGhosts>>
  /\ UNCHANGED offAdmin

\* onReject(entry.entry_id) of a listed card: handleRejectEntry up to its
\* await
HandleRejectEntry(id) ==
  /\ page = "admin"
  /\ id \in IdsOf(pendingEntries)
  /\ Len(mutations) < MaxMutations
  /\ mutations' = Append(mutations, Mutation("delete", id, NoRule))
  /\ UNCHANGED <<adminLists, adminLoading, rounds, grammarDialog>>
  /\ UNCHANGED <<store, toast, serverVars, moderationGhosts>>
  /\ UNCHANGED offAdmin

\* if (!formData.title || !formData.content)
RuleFormIncomplete(f) == ~Truthy(f.title) \/ ~Truthy(f.content)

\* The server's answer to an admin's POST /vocabulary-gaps/{id}/approve: a gap
\* without a rendering is not approved
ApproveAnswer(id) ==
  IF id \notin GapIds THEN "notfound"
  ELSE IF ~Truthy(GapOf(gapStore, id).suggested_maay) THEN "refused"
  ELSE "ok"

\* An element of the uploaded array that has an entry's required fields
IsEntryObject(v) ==
  /\ v.kind = "object"
  /\ Truthy(v.maay_word) /\ Truthy(v.english_translation)

\* POST /admin/bulk-upload/dictionary: every element becomes a verified entry
RECURSIVE BulkCreate(_, _, _)
BulkCreate(st, id, items) ==
  IF items = << >> THEN st
  ELSE BulkCreate(CreateEntry(st, id, Head(items), TRUE), id + 1, Tail(items))

\* The server's answer to a mutation of the admin API: refused without an
\* admin session or with a required field empty, not-found for an entry id
\* that is not in the collection
AdminAnswer(m) ==
  CASE m.op = "gap-suggest"     ->
         IF m.id \notin GapIds THEN "notfound"
         ELSE IF GapOf(gapStore, m.id).status # "pending" THEN "refused"
         ELSE "ok"
    [] ~Privileged(session)     -> "refused"
    [] m.op = "grammar"         ->
         IF RuleFormIncomplete(m.body) THEN "refused" ELSE "ok"
    [] m.op = "gap-approve"     -> ApproveAnswer(m.id)
    [] m.op = "bulk"            ->
         IF \A k \in 1..Len(m.body) : IsEntryObject(m.body[k])
           THEN "ok" ELSE "refused"
    [] m.id \notin IdsOf(store) -> "notfound"
    [] OTHER                    -> "ok"

\* An approve of a gap that is approved already: it creates nothing, whether
\* the server then answers with a 2xx or with an error
ReapprovalUnnoticed(m) == FALSE

Reapproval(m) ==
  /\ m.op = "gap-approve"
  /\ AdminAnswer(m) = "ok"
  /\ GapOf(gapStore, m.id).status = "approved"

AdminAnswers(m) ==
  IF Reapproval(m) THEN { "ok", "refused" } ELSE { AdminAnswer(m) }

\* The entry POST /vocabulary-gaps/{id}/approve creates for gap g
EntryOfGap(g) ==
  [maay_word |-> g.suggested_maay, english_translation |-> g.english_term]

\* The server handles mutation i of this admin
ServeMutation(i) ==
  /\ i \in 1..Len(mutations)
  /\ mutations[i].st = "sent"
  /\ \E a \in AdminAnswers(mutations[i]) :
       LET m      == mutations[i]
           ok     == a = "ok" /\ ~Reapproval(m)
           found  == ok /\ m.op \in { "verify", "delete" }
           approve == ok /\ m.op = "gap-approve"
           bulk   == ok /\ m.op = "bulk"
           create == IF approve THEN 1 ELSE IF bulk THEN Len(m.body) ELSE 0
       IN  /\ nextId + create <= MaxEntries + 2
           /\ mutations' = [mutations EXCEPT ![i].st = a]
           /\ store' = CASE ok /\ m.op = "verify" -> VerifyEntry(store, m.id)
                         [] ok /\ m.op = "delete" -> DeleteEntry(store, m.id)
                         [] approve ->
                              CreateEntry(store, nextId,
                                          EntryOfGap(GapOf(gapStore, m.id)),
                                          TRUE)
                         [] bulk -> BulkCreate(store, nextId, m.body)
                         [] OTHER                 -> store
           /\ nextId' = nextId + create
           /\ grammarStore' = IF ok /\ m.op = "grammar"
                                THEN grammarStore \cup { m.body }
                                ELSE grammarStore
           /\ gapStore' =
                CASE ok /\ m.op = "gap-suggest" ->
                       AttachCandidate(gapStore, m.id, m.body)
                  [] approve -> MarkApproved(gapStore, m.id)
                  [] OTHER  -> gapStore
           /\ approved' = IF m.op = "verify" /\ found
                            THEN approved \cup { m.id } ELSE approved
           /\ byThis' = IF track = "refresh" /\ m.op \in { "verify", "delete" }
                           THEN byThis \cup { m.id } ELSE byThis
  /\ UNCHANGED <<adminLists, adminLoading, rounds, grammarDialog>>
  /\ UNCHANGED <<toast, userCreated, healed, byOther>>
  /\ UNCHANGED <<besideAdmin, beyondGaps, gapCards, bulkVars>>

\* AddGrammarDialog.handleSubmit after await onAdd(formData), which never
\* throws: setOpen(false), formData reset, setLoading(false)
AfterOnAdd(op) ==
  IF op = "grammar"
    THEN /\ grammarOpen' = FALSE
         /\ grammarForm' = NoRule
         /\ grammarLoading' = FALSE
    ELSE UNCHANGED grammarDialog

\* VocabularyGapCard.handleSuggest after await onSuggest(...), which never
\* throws: setShowInput(false), if the card is still mounted
AfterOnSuggest(m) ==
  IF m.op = "gap-suggest" /\ m.live
    THEN gapCards' = [gapCards EXCEPT ![m.id].showInput = FALSE]
    ELSE UNCHANGED gapCards

\* BulkUploadDialog.handleUpload after await onUpload(entries), which never
\* throws: setOpen(false), setJsonData(""), and setLoading(false) in finally
AfterOnUpload(op) ==
  IF op = "bulk"
    THEN /\ bulkOpen' = FALSE
         /\ jsonData' = << >>
         /\ bulkLoading' = FALSE
    ELSE UNCHANGED bulkVars

\* The 2xx answer of mutation i arrives: success toast, fetchData()
MutationSucceeds(i) ==
  /\ i \in 1..Len(mutations)
  /\ mutations[i].st = "ok"
  /\ toast' = SuccessToast(mutations[i].op)
  /\ FetchData
  /\ AfterOnAdd(mutations[i].op)
  /\ AfterOnSuggest(mutations[i])
  /\ AfterOnUpload(mutations[i].op)
  /\ mutations' = RemoveAt(mutations, i)
  /\ UNCHANGED adminLists
  /\ UNCHANGED <<store, serverVars, moderationGhosts>>
  /\ UNCHANGED <<besideAdmin, beyondGaps, gapStore>>

\* The catch branch of mutation i: the not-found answer, or no answer
MutationFails(i) ==
  /\ i \in 1..Len(mutations)
  /\ toast' = FailureToast(mutations[i].op)
  /\ AfterOnAdd(mutations[i].op)
  /\ AfterOnSuggest(mutations[i])
  /\ AfterOnUpload(mutations[i].op)
  /\ mutations' = RemoveAt(mutations, i)
  /\ UNCHANGED <<adminLists, adminLoading, rounds>>
  /\ UNCHANGED <<store, serverVars, moderationGhosts>>
  /\ UNCHANGED <<besideAdmin, beyondGaps, gapStore>>

\* The server answers one GET of round i from the collection as it is now
ServeGet(i, part) ==
  /\ i \in 1..Len(rounds)
  /\ ~rounds[i][part].served
  /\ rounds' = [rounds EXCEPT ![i][part] =
                  [served |-> TRUE,
                   data |-> CASE part = "pending" -> PendingOf(store)
                              [] part = "gaps" -> PendingGaps(gapStore)
                              [] OTHER -> grammarStore]]
  /\ UNCHANGED <<adminLists, adminLoading, mutations, grammarDialog>>
  /\ UNCHANGED <<store, toast, serverVars, moderationGhosts>>
  /\ UNCHANGED offAdmin

\* The cards after the gap list changes from old to new: a card keeps its
\* state while its gap stays listed (key={gap.gap_id}), is mounted afresh for
\* a gap newly listed, and is gone with its gap
GapIdsOf(gs) == { g.gap_id : g \in gs }

Remounted(cards, old, new) ==
  [id \in GapIds |->
     IF id \notin GapIdsOf(new) THEN NoCard
     ELSE IF id \in GapIdsOf(old) THEN cards[id]
     ELSE CardOf(GapOf(new, id))]

\* A card that awaits its onSuggest is gone with its gap
Unmounted(ms, new) ==
  [k \in 1..Len(ms) |->
     IF ms[k].op = "gap-suggest" /\ ms[k].id \notin GapIdsOf(new)
       THEN [ms[k] EXCEPT !.live = FALSE] ELSE ms[k]]

\* Promise.all of round i resolves: the four lists are replaced
RoundSucceeds(i) ==
  /\ i \in 1..Len(rounds)
  /\ rounds[i].pending.served /\ rounds[i].grammar.served
  /\ rounds[i].gaps.served
  /\ stats' = "loaded"
  /\ pendingEntries' = SetPending(pendingEntries, rounds[i].pending.data)
  /\ vocabularyGaps' = rounds[i].gaps.data
  /\ grammarRules' = rounds[i].grammar.data
  /\ adminLoading' = FALSE
  /\ healed' = healed \cup rounds[i].after
  /\ rounds' = RemoveAt(rounds, i)
  /\ gapCards' = Remounted(gapCards, vocabularyGaps, rounds[i].gaps.data)
  /\ mutations' = Unmounted(mutations, rounds[i].gaps.data)
  /\ UNCHANGED grammarDialog
  /\ UNCHANGED <<store, toast, serverVars, userCreated, approved, byThis,
                 byOther>>
  /\ UNCHANGED <<besideAdmin, beyondGaps, gapStore, bulkVars>>

\* Promise.all of round i rejects: one of its GETs failed
RoundFailsPartly(i) ==
  /\ i \in 1..Len(rounds)
  /\ toast' = Toast("error", "Failed to load admin data")
  /\ adminLoading' = FALSE
  /\ rounds' = RemoveAt(rounds, i)
  /\ pendingEntries' = IF rounds[i].pending.served
                         THEN rounds[i].pending.data ELSE pendingEntries
  /\ UNCHANGED <<stats, vocabularyGaps, grammarRules, mutations,
                 grammarDialog>>
  /\ UNCHANGED <<store, serverVars, moderationGhosts>>
  /\ UNCHANGED offAdmin

RoundFails(i) ==
  /\ i \in 1..Len(rounds)
  /\ toast' = Toast("error", "Failed to load admin data")
  /\ adminLoading' = FALSE
  /\ rounds' = RemoveAt(rounds, i)
  /\ UNCHANGED <<adminLists, mutations, grammarDialog>>
  /\ UNCHANGED <<store, serverVars, moderationGhosts>>
  /\ UNCHANGED offAdmin

\* Another signed-in user's add-word dialog passes its check and the server
\* stores the word (AddWordDialog.handleSubmit in that user's browser)
OtherUserAddsWord(f, u) ==
  /\ nextId <= MaxEntries
  /\ u.signedIn
  /\ ~WordFormIncomplete(f)
  /\ store' = CreateEntry(store, nextId, f, Privileged(u))
  /\ nextId' = nextId + 1
  /\ userCreated' = IF Privileged(u) THEN userCreated
                                     ELSE userCreated \cup { nextId }
  /\ UNCHANGED <<adminVars, toast, grammarStore, approved, healed, byThis,
                 byOther>>
  /\ UNCHANGED offAdmin

\* Another admin's approve of an entry its pending list shows
OtherAdminApproves(id) ==
  /\ id \in EverPending
  /\ id \in IdsOf(store)
  /\ store' = VerifyEntry(store, id)
  /\ approved' = approved \cup { id }
  /\ byOther' = IF track = "refresh" THEN byOther \cup { id } ELSE byOther
  /\ UNCHANGED <<adminVars, toast, serverVars, userCreated, healed, byThis>>
  /\ UNCHANGED offAdmin

\* Another admin's reject of an entry its pending list shows
OtherAdminRejects(id) ==
  /\ id \in EverPending
  /\ id \in IdsOf(store)
  /\ store' = DeleteEntry(store, id)
  /\ byOther' = IF track = "refresh" THEN byOther \cup { id } ELSE byOther
  /\ UNCHANGED <<adminVars, toast, serverVars, userCreated, approved, healed,
                 byThis>>
  /\ UNCHANGED offAdmin

\* An admin's AdminPage just mounted: fetchData() of the mount effect is in
\* flight
AdminMounted ==
  /\ page = "admin"
  /\ user = User(TRUE, FALSE)
  /\ session = user
  /\ authPending = FALSE
  /\ logoutPending = "no"
  /\ DialogsIdle
  /\ stats = "null"
  /\ pendingEntries = {}
  /\ vocabularyGaps = {}
  /\ grammarRules = {}
  /\ adminLoading = TRUE
  /\ ServerInit
  /\ ChatIdle
  /\ BulkIdle
  /\ LaterIdle
  /\ store = SeedStore
  /\ rounds = << [pending |-> PendingPart, grammar |-> GrammarPart,
                  gaps |-> GapsPart, after |-> {}] >>
  /\ mutations = << >>
  /\ grammarOpen = FALSE
  /\ grammarForm = NoRule
  /\ grammarLoading = FALSE
  /\ gapCards = NoCards
  /\ searchQuery = << >>
  /\ searchLanguage = "both"
  /\ soundGroupFilter = ""
  /\ verifiedOnly = FALSE
  /\ entries = {}
  /\ loading = FALSE
  /\ timer = NoTimer
  /\ fetches = << >>
  /\ toast = NoToast
  /\ superseded = 0
  /\ shownStale = FALSE
  /\ lastDelivered = {}
  /\ burst = 0
  /\ firedAfterBurst = FALSE
  /\ inputText = << >>
  /\ sourceText = << >>
  /\ isRecording = FALSE
  /\ micPending = 0
  /\ recorder = "none"
  /\ dictRecorders = 0
  /\ transcribing = 0
  /\ heard = [ok |-> FALSE, text |-> << >>]

InitModeration == track = "moderation" /\ AdminMounted

NextModeration ==
  \/ \E id \in 1..MaxEntries : HandleApproveEntry(id)
  \/ \E id \in 1..MaxEntries : HandleRejectEntry(id)
  \/ \E i \in 1..MaxMutations : ServeMutation(i)
  \/ \E i \in 1..MaxMutations : MutationSucceeds(i)
  \/ \E i \in 1..MaxMutations : MutationFails(i)
  \/ \E i \in 1..MaxRounds, part \in { "pending", "grammar" } : ServeGet(i, part)
  \/ \E i \in 1..MaxRounds : RoundSucceeds(i)
  \/ \E i \in 1..MaxRounds : RoundFails(i)
  \/ \E f \in WordForms, u \in Users : OtherUserAddsWord(f, u)
  \/ \E id \in 1..MaxEntries : OtherAdminApproves(id)
  \/ \E id \in 1..MaxEntries : OtherAdminRejects(id)

SpecModeration == InitModeration /\ [][NextModeration]_vars

\* One admin and the users who add words: no other admin
NextSolo ==
  \/ \E id \in 1..MaxEntries : HandleApproveEntry(id)
  \/ \E id \in 1..MaxEntries : HandleRejectEntry(id)
  \/ \E i \in 1..MaxMutations : ServeMutation(i)
  \/ \E i \in 1..MaxMutations : MutationSucceeds(i)
  \/ \E i \in 1..MaxMutations : MutationFails(i)
  \/ \E i \in 1..MaxRounds, part \in { "pending", "grammar" } : ServeGet(i, part)
  \/ \E i \in 1..MaxRounds : RoundSucceeds(i)
  \/ \E i \in 1..MaxRounds : RoundFails(i)
  \/ \E f \in WordForms, u \in Users : OtherUserAddsWord(f, u)

SpecSolo == InitModeration /\ [][NextSolo]_vars

\* The same clients, recording which refreshes were requested after an entry
\* was settled
InitRefresh == track = "refresh" /\ AdminMounted

SpecRefresh == InitRefresh /\ [][NextModeration]_vars

----------------------------------------------------------------------------
\* The vocabulary gaps: VocabularyGapCard, handleSuggestMaay and
\* handleApproveGap of AdminPage

\* What admins type into a card's input
GapTexts == { << >>, <<" ">>, <<"w">> }

\* gap.suggested_maay ? <Approve> : ...
ApproveOfferedAlways(g) == TRUE

ApproveOffered(g) == Truthy(g.suggested_maay)

\* if (!suggestion.trim()) return
BlankSuggestionUntrimmed(text) == ~Truthy(text)

BlankSuggestion(text) == ~Truthy(Trim(text))

\* The gap the page lists under id
Listed(id) == id \in GapIdsOf(vocabularyGaps)

\* what the card actions leave alone
offCards == <<adminLists, adminLoading, rounds, grammarDialog, store, toast,
              serverVars, moderationGhosts, besideAdmin, beyondGaps,
              gapStore, bulkVars>>

\* "Suggest": setShowInput(true)
ShowGapInput(id) ==
  /\ page = "admin"
  /\ Listed(id)
  /\ ~ApproveOffered(GapOf(vocabularyGaps, id))
  /\ ~gapCards[id].showInput
  /\ gapCards' = [gapCards EXCEPT ![id].showInput = TRUE]
  /\ UNCHANGED mutations
  /\ UNCHANGED offCards

\* The X button: setShowInput(false)
HideGapInput(id) ==
  /\ page = "admin"
  /\ Listed(id)
  /\ ~ApproveOffered(GapOf(vocabularyGaps, id))
  /\ gapCards[id].showInput
  /\ gapCards' = [gapCards EXCEPT ![id].showInput = FALSE]
  /\ UNCHANGED mutations
  /\ UNCHANGED offCards

\* onChange of the card's input: setSuggestion
TypeGapSuggestion(id, text) ==
  /\ page = "admin"
  /\ Listed(id)
  /\ ~ApproveOffered(GapOf(vocabularyGaps, id))
  /\ gapCards[id].showInput
  /\ text # gapCards[id].suggestion
  /\ gapCards' = [gapCards EXCEPT ![id].suggestion = text]
  /\ UNCHANGED mutations
  /\ UNCHANGED offCards

\* "Save": VocabularyGapCard.handleSuggest up to the await in
\* handleSuggestMaay
HandleSuggest(id) ==
  /\ page = "admin"
  /\ Listed(id)
  /\ ~ApproveOffered(GapOf(vocabularyGaps, id))
  /\ gapCards[id].showInput
  /\ IF BlankSuggestion(gapCards[id].suggestion)
       THEN UNCHANGED mutations
       ELSE /\ Len(mutations) < MaxMutations
            /\ mutations' = Append(mutations,
                                   Mutation("gap-suggest", id,
                                            gapCards[id].suggestion))
  /\ UNCHANGED gapCards
  /\ UNCHANGED offCards

\* "Approve": handleApproveGap(gap.gap_id) up to its await
HandleApproveGap(id) ==
  /\ page = "admin"
  /\ Listed(id)
  /\ ApproveOffered(GapOf(vocabularyGaps, id))
  /\ Len(mutations) < MaxMutations
  /\ mutations' = Append(mutations, Mutation("gap-approve", id, << >>))
  /\ UNCHANGED gapCards
  /\ UNCHANGED offCards

\* Another admin's card saves a rendering for a gap its list shows without
\* one
OtherAdminSuggests(id, text) ==
  /\ id \in GapIds
  /\ GapOf(gapStore, id).status = "pending"
  /\ ~BlankSuggestion(text)
  /\ text # GapOf(gapStore, id).suggested_maay
  /\ gapStore' = AttachCandidate(gapStore, id, text)
  /\ UNCHANGED <<adminVars, store, toast, serverVars, moderationGhosts>>
  /\ UNCHANGED <<besideAdmin, beyondGaps, gapCards, bulkVars>>

\* Another client of the API (another admin's page, or a request made without
\* the page) posts an approve for a pending gap
OtherClientApproves(id) ==
  /\ id \in GapIds
  /\ GapOf(gapStore, id).status = "pending"
  /\ LET a == ApproveAnswer(id)
     IN  /\ approval' = IF a = "ok" THEN approval
                         ELSE [id |-> id, answer |-> a]
         /\ IF a = "ok"
              THEN /\ nextId <= MaxEntries + 1
                   /\ store' = CreateEntry(store, nextId,
                                           EntryOfGap(GapOf(gapStore, id)),
                                           TRUE)
                   /\ nextId' = nextId + 1
                   /\ gapStore' = MarkApproved(gapStore, id)
              ELSE UNCHANGED <<store, nextId, gapStore>>
  /\ UNCHANGED <<adminVars, toast, grammarStore, moderationGhosts>>
  /\ UNCHANGED <<besideAdmin, track, suggestVars, chatVars, gapCards>>
  /\ UNCHANGED <<bulkVars, laterVars>>

InitGaps == track = "gaps" /\ AdminMounted

NextGaps ==
  \/ \E id \in GapIds : ShowGapInput(id)
  \/ \E id \in GapIds : HideGapInput(id)
  \/ \E id \in GapIds, text \in GapTexts : TypeGapSuggestion(id, text)
  \/ \E id \in GapIds : HandleSuggest(id)
  \/ \E id \in GapIds : HandleApproveGap(id)
  \/ \E i \in 1..MaxMutations : ServeMutation(i)
  \/ \E i \in 1..MaxMutations : MutationSucceeds(i)
  \/ \E i \in 1..MaxMutations : MutationFails(i)
  \/ \E i \in 1..MaxRounds : ServeGet(i, "gaps")
  \/ \E i \in 1..MaxRounds : RoundSucceeds(i)
  \/ \E i \in 1..MaxRounds : RoundFails(i)
  \/ OtherAdminSuggests(1, <<"v">>)
  \/ \E id \in GapIds : OtherClientApproves(id)

SpecGaps == InitGaps /\ [][NextGaps]_vars

----------------------------------------------------------------------------
\* The dialogs: WordDialog (add and edit) of DictionaryPage under the
\* AuthProvider, AddGrammarDialog of AdminPage

\* POST/PUT /dictionary requests of one DictionaryPage in flight at once
MaxSaves == 1

\* const canEdit = user?.is_admin || user?.is_contributor
CanEditAnyUser(u) == u.signedIn

CanEdit(u) == u.is_admin \/ u.is_contributor

\* The buttons under "Edit buttons" of a DictionaryCard: none without a
\* user, else the one calling onEdit or the one calling onSuggestEdit
CardActions(u) ==
  IF ~u.signedIn THEN {}
  ELSE IF CanEdit(u) THEN { "edit" } ELSE { "suggest" }

\* The required attribute of the inputs: the browser does not fire the submit
\* event of a clicked submit button while one of them is empty
RequiredInputEmpty(values) == \E k \in 1..Len(values) : values[k] = << >>

\* What admins type into the grammar dialog
RuleForms ==
  { [title |-> t, content |-> c] :
      t \in { << >>, <<"r">> }, c \in { << >>, <<"x">> } }

\* The dialogs the page renders: the add dialog sits under {user && ...}
AddOpen == showAddDialog /\ user.signedIn

EditOpen == editingEntry # 0

SuggestOpen == suggestingEntry # 0

AnyDialog == AddOpen \/ EditOpen \/ SuggestOpen

\* formData a WordDialog starts with for entry e
FormOf(e) ==
  [maay_word |-> e.maay_word, english_translation |-> e.english_translation]

\* formData a SuggestEditDialog starts with for entry e
SuggestionOf(e) ==
  [maay_word |-> e.maay_word, english_translation |-> e.english_translation,
   reason |-> << >>]

\* PUT /dictionary/{id}: the fields are replaced, the state is kept
UpdateEntry(st, id, body) ==
  { IF e.entry_id = id
      THEN [e EXCEPT !.maay_word = body.maay_word,
                     !.english_translation = body.english_translation]
      ELSE e : e \in st }

\* A request of handleAddWord / handleEditWord: the session it is sent with,
\* the render whose fetchEntries it will call, and whether the WordDialog
\* that awaits it is still mounted
Save(kind, id, body) ==
  [kind |-> kind, id |-> id, body |-> body, by |-> session,
   view |-> Closure(searchQuery, searchLanguage, soundGroupFilter,
                    verifiedOnly),
   live |-> TRUE, st |-> "sent"]

\* The WordDialog unmounts: requests in flight lose their dialog
Orphaned(ss) == [k \in 1..Len(ss) |-> [ss[k] EXCEPT !.live = FALSE]]

\* what the dialog actions of DictionaryPage leave alone
besideDialogs == <<searchQuery, searchLanguage, soundGroupFilter,
                   verifiedOnly, timer, burst, firedAfterBurst, superseded,
                   shownStale, lastDelivered, voiceVars, adminVars,
                   grammarStore, approved, healed, byThis, byOther>>

offDialogs == <<besideDialogs, elsewhere>>

formState == <<wordForm, wordLoading, hint>>

\* The count of submit attempts, kept modulo 2 where a specification records it
Ticked == IF track = "forms" THEN 1 - submitTick ELSE submitTick

\* "Add Word": setShowAddDialog(true) mounts a WordDialog in add mode
OpenAddDialog ==
  /\ page = "dictionary"
  /\ user.signedIn
  /\ ~AnyDialog
  /\ showAddDialog' = TRUE
  /\ wordForm' = NoForm
  /\ wordLoading' = FALSE
  /\ hint' = FALSE
  /\ UNCHANGED <<editingEntry, suggestingEntry, saves, submitTick>>
  /\ UNCHANGED <<entries, loading, fetches, store, toast, nextId,
                 userCreated, authVars>>
  /\ UNCHANGED offDialogs

\* onEdit(entry) of a listed card: setEditingEntry mounts a WordDialog in
\* edit mode
OnEdit(id) ==
  /\ page = "dictionary"
  /\ "edit" \in CardActions(user)
  /\ ~AnyDialog
  /\ \E e \in entries :
       /\ e.entry_id = id
       /\ wordForm' = FormOf(e)
  /\ editingEntry' = id
  /\ wordLoading' = FALSE
  /\ hint' = FALSE
  /\ UNCHANGED <<showAddDialog, suggestingEntry, saves, submitTick>>
  /\ UNCHANGED <<entries, loading, fetches, store, toast, nextId,
                 userCreated, authVars>>
  /\ UNCHANGED offDialogs

\* onSuggestEdit(entry) of a listed card: setSuggestingEntry
OnSuggestEdit(id) ==
  /\ page = "dictionary"
  /\ "suggest" \in CardActions(user)
  /\ ~AnyDialog
  /\ \E e \in entries :
       /\ e.entry_id = id
       /\ suggestForm' = SuggestionOf(e)
  /\ suggestingEntry' = id
  /\ suggestLoading' = FALSE
  /\ UNCHANGED <<showAddDialog, editingEntry, saves, submitTick, formState>>
  /\ UNCHANGED <<entries, loading, fetches, store, toast, nextId,
                 userCreated, authVars>>
  /\ UNCHANGED <<besideDialogs, beyondSuggest, suggests, suggestionStore>>

\* The suggest dialog is dismissed: setSuggestingEntry(null)
CloseSuggest ==
  /\ SuggestOpen
  /\ suggestingEntry' = 0
  /\ suggestForm' = NoSuggestion
  /\ suggestLoading' = FALSE
  /\ suggests' = Orphaned(suggests)
  /\ UNCHANGED <<showAddDialog, editingEntry, saves, submitTick, formState>>
  /\ UNCHANGED <<entries, loading, fetches, store, toast, nextId,
                 userCreated, authVars>>
  /\ UNCHANGED <<besideDialogs, beyondSuggest, suggestionStore>>

\* onChange of the word and translation inputs
TypeWord(f) ==
  /\ AddOpen \/ EditOpen
  /\ f # wordForm
  /\ wordForm' = f
  /\ hint' = FALSE
  /\ UNCHANGED <<showAddDialog, editingEntry, suggestingEntry, saves,
                 submitTick, wordLoading>>
  /\ UNCHANGED <<entries, loading, fetches, store, toast, nextId,
                 userCreated, authVars>>
  /\ UNCHANGED offDialogs

\* Cancel, Escape or a click outside: onClose / onOpenChange unmounts the
\* WordDialog
CloseWordDialog ==
  /\ AddOpen \/ EditOpen
  /\ IF AddOpen THEN showAddDialog' = FALSE /\ UNCHANGED editingEntry
               ELSE editingEntry' = 0 /\ UNCHANGED showAddDialog
  /\ wordForm' = NoForm
  /\ wordLoading' = FALSE
  /\ hint' = FALSE
  /\ saves' = Orphaned(saves)
  /\ UNCHANGED <<suggestingEntry, submitTick>>
  /\ UNCHANGED <<entries, loading, fetches, store, toast, nextId,
                 userCreated, authVars>>
  /\ UNCHANGED offDialogs

\* WordDialog.handleSubmit up to its await, onSave being handleAddWord or
\* handleEditWord
HandleSubmit ==
  /\ submitTick' = Ticked
  /\ IF WordFormIncomplete(wordForm)
       THEN /\ toast' = Toast("error", "Please fill in required fields")
            /\ UNCHANGED <<wordLoading, saves>>
       ELSE /\ Len(saves) < MaxSaves
            /\ wordLoading' = TRUE
            /\ saves' = Append(saves,
                         IF EditOpen THEN Save("PUT", editingEntry, wordForm)
                                     ELSE Save("POST", 0, wordForm))
            /\ UNCHANGED toast
  /\ UNCHANGED <<wordForm, hint>>

\* The submit button is clicked (or Enter pressed): the browser checks the
\* required inputs before it fires the submit event
RequestSubmit ==
  /\ AddOpen \/ EditOpen
  /\ ~wordLoading
  /\ IF RequiredInputEmpty(<<wordForm.maay_word,
                             wordForm.english_translation>>)
       THEN /\ hint' = TRUE
            /\ submitTick' = Ticked
            /\ UNCHANGED <<wordForm, wordLoading, saves, toast>>
       ELSE HandleSubmit
  /\ UNCHANGED <<showAddDialog, editingEntry, suggestingEntry>>
  /\ UNCHANGED <<entries, loading, fetches, store, nextId, userCreated,
                 authVars>>
  /\ UNCHANGED offDialogs

\* A submit event reaches the form without the browser's check (a script's
\* dispatchEvent, as component tests do)
DispatchSubmit ==
  /\ AddOpen \/ EditOpen
  /\ HandleSubmit
  /\ UNCHANGED <<showAddDialog, editingEntry, suggestingEntry>>
  /\ UNCHANGED <<entries, loading, fetches, store, nextId, userCreated,
                 authVars>>
  /\ UNCHANGED offDialogs

\* The server's answer to POST /dictionary and PUT /dictionary/{id}
SaveAnswer(s) ==
  CASE ~session.signedIn \/ WordFormIncomplete(s.body) -> "refused"
    [] s.kind = "POST" -> "ok"
    [] ~CanEdit(session) -> "refused"
    [] s.id \notin IdsOf(store) -> "notfound"
    [] OTHER -> "ok"

\* The server handles request i of the page
ServeSave(i) ==
  /\ i \in 1..Len(saves)
  /\ saves[i].st = "sent"
  /\ LET s  == saves[i]
         ok == SaveAnswer(s) = "ok"
     IN  /\ ok /\ s.kind = "POST" => nextId <= MaxEntries
         /\ saves' = [saves EXCEPT ![i].st = SaveAnswer(s)]
         /\ store' = CASE ok /\ s.kind = "POST" ->
                            CreateEntry(store, nextId, s.body,
                                        Privileged(session))
                       [] ok /\ s.kind = "PUT" ->
                            UpdateEntry(store, s.id, s.body)
                       [] OTHER -> store
         /\ nextId' = IF ok /\ s.kind = "POST" THEN nextId + 1 ELSE nextId
         /\ userCreated' = IF ok /\ s.kind = "POST" /\ ~Privileged(session)
                             THEN userCreated \cup { nextId }
                             ELSE userCreated
  /\ UNCHANGED <<showAddDialog, editingEntry, suggestingEntry, submitTick,
                 formState>>
  /\ UNCHANGED <<entries, loading, fetches, toast, authVars>>
  /\ UNCHANGED offDialogs

\* The 2xx answer of request i arrives: success toast, fetchEntries() of the
\* submitting render, then onClose() and setLoading(false) in WordDialog
SaveSucceeds(i) ==
  /\ i \in 1..Len(saves)
  /\ saves[i].st = "ok"
  /\ LET s      == saves[i]
         closes == IF s.kind = "POST" THEN AddOpen ELSE EditOpen
     IN  /\ toast' = IF s.kind = "POST"
                       THEN Toast("success", "Word added successfully!")
                       ELSE Toast("success", "Word updated successfully!")
         /\ IssueFetch(s.view.q, s.view.lang, s.view.sg, s.view.vo)
         /\ IF s.kind = "POST"
              THEN showAddDialog' = FALSE /\ UNCHANGED editingEntry
              ELSE editingEntry' = 0 /\ UNCHANGED showAddDialog
         /\ IF closes
              THEN /\ wordForm' = NoForm
                   /\ wordLoading' = FALSE
                   /\ hint' = FALSE
                   /\ saves' = Orphaned(RemoveAt(saves, i))
              ELSE /\ UNCHANGED formState
                   /\ saves' = RemoveAt(saves, i)
  /\ UNCHANGED <<suggestingEntry, submitTick>>
  /\ UNCHANGED <<entries, store, nextId, userCreated, authVars>>
  /\ UNCHANGED offDialogs

\* Request i fails or is refused: error toast, rethrown to WordDialog, whose
\* finally resets loading; the dialog stays open
SaveFails(i) ==
  /\ i \in 1..Len(saves)
  /\ toast' = IF saves[i].kind = "POST"
                THEN Toast("error", "Failed to add word")
                ELSE Toast("error", "Failed to update word")
  /\ wordLoading' = IF saves[i].live THEN FALSE ELSE wordLoading
  /\ saves' = RemoveAt(saves, i)
  /\ UNCHANGED <<showAddDialog, editingEntry, suggestingEntry, submitTick,
                 wordForm, hint>>
  /\ UNCHANGED <<entries, loading, fetches, store, nextId, userCreated,
                 authVars>>
  /\ UNCHANGED offDialogs

\* GET /auth/me of checkAuth is answered: the session's user, or null
CheckAuthDone ==
  /\ authPending
  /\ authPending' = FALSE
  /\ user' = session
  /\ UNCHANGED <<logoutPending, session>>
  /\ UNCHANGED dialogVars
  /\ UNCHANGED <<entries, loading, fetches, store, toast, nextId,
                 userCreated>>
  /\ UNCHANGED offDialogs

\* GET /auth/me fails: setUser(null)
CheckAuthFails ==
  /\ authPending
  /\ authPending' = FALSE
  /\ user' = NoUser
  /\ UNCHANGED <<logoutPending, session>>
  /\ UNCHANGED dialogVars
  /\ UNCHANGED <<entries, loading, fetches, store, toast, nextId,
                 userCreated>>
  /\ UNCHANGED offDialogs

\* The server handles POST /auth/logout: the session ends
ServeLogout ==
  /\ logoutPending = "sent"
  /\ logoutPending' = "handled"
  /\ session' = NoUser
  /\ UNCHANGED <<user, authPending>>
  /\ UNCHANGED dialogVars
  /\ UNCHANGED <<entries, loading, fetches, store, toast, nextId,
                 userCreated>>
  /\ UNCHANGED offDialogs

\* logout() after its await, answered or failed: setUser(null); the add
\* dialog, rendered under {user && ...}, unmounts with its WordDialog
LogoutDone ==
  /\ page = "dictionary"
  /\ logoutPending # "no"
  /\ logoutPending' = "no"
  /\ user' = NoUser
  /\ IF AddOpen
       THEN /\ wordForm' = NoForm
            /\ wordLoading' = FALSE
            /\ hint' = FALSE
            /\ saves' = Orphaned(saves)
       ELSE UNCHANGED <<formState, saves>>
  /\ UNCHANGED <<authPending, session>>
  /\ UNCHANGED <<showAddDialog, editingEntry, suggestingEntry, submitTick>>
  /\ UNCHANGED <<entries, loading, fetches, store, toast, nextId,
                 userCreated>>
  /\ UNCHANGED offDialogs

\* what the grammar dialog actions leave alone
offGrammar == <<adminLists, adminLoading, rounds, store, serverVars,
                moderationGhosts>>

\* "Add Rule": the dialog opens on the formData AddGrammarDialog holds
OpenGrammarDialog ==
  /\ page = "admin"
  /\ ~grammarOpen
  /\ grammarOpen' = TRUE
  /\ UNCHANGED <<grammarForm, grammarLoading, mutations, toast>>
  /\ UNCHANGED offGrammar
  /\ UNCHANGED offAdmin

\* Cancel, Escape or a click outside: setOpen(false)
CloseGrammarDialog ==
  /\ grammarOpen
  /\ grammarOpen' = FALSE
  /\ hint' = FALSE
  /\ UNCHANGED <<grammarForm, grammarLoading, mutations, toast>>
  /\ UNCHANGED offGrammar
  /\ UNCHANGED <<searchState, superseded, shownStale, lastDelivered, elsewhere,
                 voiceVars, authVars>>
  /\ UNCHANGED <<showAddDialog, editingEntry, wordForm, wordLoading, saves,
                 suggestingEntry, submitTick>>

\* onChange of the title and content inputs
TypeRule(r) ==
  /\ grammarOpen
  /\ r # grammarForm
  /\ grammarForm' = r
  /\ hint' = FALSE
  /\ UNCHANGED <<grammarOpen, grammarLoading, mutations, toast>>
  /\ UNCHANGED offGrammar
  /\ UNCHANGED <<searchState, superseded, shownStale, lastDelivered, elsewhere,
                 voiceVars, authVars>>
  /\ UNCHANGED <<showAddDialog, editingEntry, wordForm, wordLoading, saves,
                 suggestingEntry, submitTick>>

\* AddGrammarDialog.handleSubmit up to its await, onAdd being
\* handleAddGrammar
HandleSubmitRule ==
  /\ submitTick' = Ticked
  /\ IF RuleFormIncomplete(grammarForm)
       THEN /\ toast' = Toast("error", "Please fill required fields")
            /\ UNCHANGED <<grammarLoading, mutations>>
       ELSE /\ Len(mutations) < MaxMutations
            /\ grammarLoading' = TRUE
            /\ mutations' = Append(mutations,
                                   Mutation("grammar", 0, grammarForm))
            /\ UNCHANGED toast
  /\ UNCHANGED <<grammarOpen, grammarForm, hint>>

\* The submit button of the grammar form is clicked
RequestSubmitRule ==
  /\ grammarOpen
  /\ ~grammarLoading
  /\ IF RequiredInputEmpty(<<grammarForm.title, grammarForm.content>>)
       THEN /\ hint' = TRUE
            /\ submitTick' = Ticked
            /\ UNCHANGED <<grammarDialog, mutations, toast>>
       ELSE HandleSubmitRule
  /\ UNCHANGED offGrammar
  /\ UNCHANGED <<searchState, superseded, shownStale, lastDelivered, elsewhere,
                 voiceVars, authVars>>
  /\ UNCHANGED <<showAddDialog, editingEntry, wordForm, wordLoading, saves,
                 suggestingEntry>>

\* A submit event reaches the grammar form without the browser's check
DispatchSubmitRule ==
  /\ grammarOpen
  /\ HandleSubmitRule
  /\ UNCHANGED offGrammar
  /\ UNCHANGED <<searchState, superseded, shownStale, lastDelivered, elsewhere,
                 voiceVars, authVars>>
  /\ UNCHANGED <<showAddDialog, editingEntry, wordForm, wordLoading, saves,
                 suggestingEntry>>

\* DictionaryPage once the requests of its mount effects have been answered:
\* under a session whose user is known, still being asked for, or being
\* signed out by a logout started on the landing page
DictionaryLoaded ==
  /\ page = "dictionary"
  /\ session \in Users \cup { NoUser }
  /\ \/ authPending = FALSE /\ user = session /\ logoutPending = "no"
     \/ authPending = TRUE /\ user = NoUser /\ logoutPending = "no"
     \/ /\ authPending = FALSE /\ user = session /\ session.signedIn
        /\ logoutPending = "sent"
  /\ DialogsIdle
  /\ AdminIdle
  /\ ServerInit
  /\ ChatIdle
  /\ BulkIdle
  /\ LaterIdle
  /\ searchQuery = << >>
  /\ searchLanguage = "both"
  /\ soundGroupFilter = ""
  /\ verifiedOnly = FALSE
  /\ entries = Search(SeedStore, BuildParams(<<>>, "both", "", FALSE))
  /\ loading = FALSE
  /\ timer = NoTimer
  /\ fetches = << >>
  /\ store = SeedStore
  /\ toast = NoToast
  /\ superseded = 0
  /\ shownStale = FALSE
  /\ lastDelivered = entries
  /\ burst = 0
  /\ firedAfterBurst = FALSE
  /\ inputText = << >>
  /\ sourceText = << >>
  /\ isRecording = FALSE
  /\ micPending = 0
  /\ recorder = "none"
  /\ dictRecorders = 0
  /\ transcribing = 0
  /\ heard = [ok |-> FALSE, text |-> << >>]

\* The forms are exercised by a contributor and by a plain user on the
\* dictionary page, and by the admin on the admin page
InitForms ==
  /\ track = "forms"
  /\ \/ /\ DictionaryLoaded
        /\ session \in { User(FALSE, TRUE), User(FALSE, FALSE) }
        /\ user = session
        /\ logoutPending = "no"
     \/ AdminMounted

NextForms ==
  \/ OpenAddDialog
  \/ \E id \in 1..MaxEntries : OnEdit(id)
  \/ \E id \in 1..MaxEntries : OnSuggestEdit(id)
  \/ CloseSuggest
  \/ \E f \in WordForms : TypeWord(f)
  \/ CloseWordDialog
  \/ RequestSubmit
  \/ DispatchSubmit
  \/ \E i \in 1..MaxSaves : ServeSave(i)
  \/ \E i \in 1..MaxSaves : SaveSucceeds(i)
  \/ \E i \in 1..MaxSaves : SaveFails(i)
  \/ \E i \in 1..MaxInflight : FetchSucceeds(i)
  \/ \E i \in 1..MaxInflight : FetchFails(i)
  \/ OpenGrammarDialog
  \/ CloseGrammarDialog
  \/ \E r \in RuleForms : TypeRule(r)
  \/ RequestSubmitRule
  \/ DispatchSubmitRule
  \/ \E i \in 1..MaxMutations : ServeMutation(i)
  \/ \E i \in 1..MaxMutations : MutationSucceeds(i)
  \/ \E i \in 1..MaxMutations : MutationFails(i)
  \/ \E i \in 1..MaxRounds, part \in { "pending", "grammar" } : ServeGet(i, part)
  \/ \E i \in 1..MaxRounds : RoundSucceeds(i)
  \/ \E i \in 1..MaxRounds : RoundFails(i)

SpecForms == InitForms /\ [][NextForms]_vars

\* The cards and the edit dialog under every session, while the
\* AuthProvider's requests are answered
InitCards == DictionaryLoaded /\ track = "cards"

NextCards ==
  \/ \E id \in 1..MaxEntries : OnEdit(id)
  \/ \E id \in 1..MaxEntries : OnSuggestEdit(id)
  \/ CloseSuggest
  \/ \E f \in WordForms : ~WordFormIncomplete(f) /\ TypeWord(f)
  \/ CloseWordDialog
  \/ RequestSubmit
  \/ \E i \in 1..MaxSaves : ServeSave(i)
  \/ \E i \in 1..MaxSaves : SaveSucceeds(i)
  \/ \E i \in 1..MaxSaves : SaveFails(i)
  \/ CheckAuthDone
  \/ CheckAuthFails
  \/ ServeLogout
  \/ LogoutDone
  \/ \E i \in 1..MaxInflight : FetchSucceeds(i)
  \/ \E i \in 1..MaxInflight : FetchFails(i)

SpecCards == InitCards /\ [][NextCards]_vars

----------------------------------------------------------------------------
\* Edit suggestions: SuggestEditDialog and handleSuggestEdit of DictionaryPage

\* POST /dictionary/{id}/suggest-edit requests of one page in flight at once
MaxSuggests == 1

\* EditSuggestion records the server's collection grows to
MaxSuggestions == 1

\* What users leave in the fields of the suggest dialog
SuggestForms ==
  { [maay_word |-> w, english_translation |-> t, reason |-> <<"y">>] :
      w \in { << >>, <<"b">> }, t \in { << >>, <<"a">> } }

\* const changes = {}; if (data.maay_word) ...; if (data.english_translation)
ChangesWithEmptyFields(data) ==
  [k \in { "maay_word", "english_translation" } |-> data[k]]

Changes(data) ==
  [k \in { key \in { "maay_word", "english_translation" } :
             Truthy(data[key]) } |-> data[k]]

\* The request of handleSuggestEdit, and whether the SuggestEditDialog that
\* awaits it is still mounted
Suggestion(id, data) ==
  [id |-> id, changes |-> Changes(data), reason |-> data.reason,
   live |-> TRUE, st |-> "sent"]

\* what the suggest actions leave alone
offSuggest == <<showAddDialog, editingEntry, saves, submitTick, formState,
                entries, loading, fetches, store, nextId, userCreated,
                authVars, besideDialogs, beyondSuggest>>

\* onChange of the inputs and of the reason textarea
TypeSuggestion(f) ==
  /\ SuggestOpen
  /\ f # suggestForm
  /\ suggestForm' = f
  /\ UNCHANGED <<suggestingEntry, suggestLoading, suggests, suggestionStore,
                 toast>>
  /\ UNCHANGED offSuggest

\* SuggestEditDialog.handleSubmit up to the await in handleSuggestEdit; the
\* submit button is disabled while loading
SubmitSuggestion ==
  /\ SuggestOpen
  /\ ~suggestLoading
  /\ Len(suggests) < MaxSuggests
  /\ suggestLoading' = TRUE
  /\ suggests' = Append(suggests, Suggestion(suggestingEntry, suggestForm))
  /\ UNCHANGED <<suggestingEntry, suggestForm, suggestionStore, toast>>
  /\ UNCHANGED offSuggest

\* The server's answer to a suggest-edit request
SuggestAnswer(r) ==
  CASE ~session.signedIn        -> "refused"
    [] r.id \notin IdsOf(store) -> "notfound"
    [] OTHER                    -> "ok"

\* The server handles request i: an EditSuggestion is stored, the entry is
\* not touched
ServeSuggest(i) ==
  /\ i \in 1..Len(suggests)
  /\ suggests[i].st = "sent"
  /\ LET r == suggests[i]
     IN  /\ SuggestAnswer(r) = "ok" =>
              Cardinality(suggestionStore) < MaxSuggestions
         /\ suggests' = [suggests EXCEPT ![i].st = SuggestAnswer(r)]
         /\ suggestionStore' =
              IF SuggestAnswer(r) = "ok"
                THEN suggestionStore \cup
                       { [entry_id |-> r.id, changes |-> r.changes,
                          reason |-> r.reason] }
                ELSE suggestionStore
  /\ UNCHANGED <<suggestingEntry, suggestForm, suggestLoading, toast>>
  /\ UNCHANGED offSuggest

\* The 2xx answer of request i arrives: success toast, then onClose() and
\* setLoading(false) in SuggestEditDialog
SuggestSucceeds(i) ==
  /\ i \in 1..Len(suggests)
  /\ suggests[i].st = "ok"
  /\ toast' = Toast("success", "Edit suggestion submitted for review!")
  /\ suggestingEntry' = 0
  /\ IF SuggestOpen
       THEN /\ suggestForm' = NoSuggestion
            /\ suggestLoading' = FALSE
            /\ suggests' = Orphaned(RemoveAt(suggests, i))
       ELSE /\ UNCHANGED <<suggestForm, suggestLoading>>
            /\ suggests' = RemoveAt(suggests, i)
  /\ UNCHANGED suggestionStore
  /\ UNCHANGED offSuggest

\* Request i fails or is refused: error toast, rethrown to SuggestEditDialog,
\* whose finally resets loading; the dialog stays open
SuggestFails(i) ==
  /\ i \in 1..Len(suggests)
  /\ toast' = Toast("error", "Failed to submit suggestion")
  /\ suggestLoading' = IF suggests[i].live THEN FALSE ELSE suggestLoading
  /\ suggests' = RemoveAt(suggests, i)
  /\ UNCHANGED <<suggestingEntry, suggestForm, suggestionStore>>
  /\ UNCHANGED offSuggest

\* A signed-in user who is neither admin nor contributor suggests edits and
\* adds words on the loaded dictionary page
InitSuggest ==
  /\ track = "suggest"
  /\ DictionaryLoaded
  /\ session = User(FALSE, FALSE)
  /\ user = session
  /\ logoutPending = "no"

NextSuggest ==
  \/ \E id \in 1..MaxEntries : OnSuggestEdit(id)
  \/ CloseSuggest
  \/ \E f \in SuggestForms : TypeSuggestion(f)
  \/ SubmitSuggestion
  \/ \E i \in 1..MaxSuggests : ServeSuggest(i)
  \/ \E i \in 1..MaxSuggests : SuggestSucceeds(i)
  \/ \E i \in 1..MaxSuggests : SuggestFails(i)
  \/ OpenAddDialog
  \/ \E f \in WordForms : ~WordFormIncomplete(f) /\ TypeWord(f)
  \/ CloseWordDialog
  \/ RequestSubmit
  \/ \E i \in 1..MaxSaves : ServeSave(i)
  \/ \E i \in 1..MaxSaves : SaveSucceeds(i)
  \/ \E i \in 1..MaxSaves : SaveFails(i)
  \/ \E i \in 1..MaxInflight : FetchSucceeds(i)
  \/ \E i \in 1..MaxInflight : FetchFails(i)

SpecSuggest == InitSuggest /\ [][NextSuggest]_vars

----------------------------------------------------------------------------
\* Properties of the search requests

ParamKeys == { "search", "language", "sound_group", "verified_only" }

\* Request p carries exactly the active ones among text q, side lang,
\* group sg and flag vo, each once and with its value
Carries(p, q, lang, sg, vo) ==
  /\ \A i \in 1..Len(p) : p[i][1] \in ParamKeys
  /\ \A k \in ParamKeys : ParamCount(p, k) <= 1
  /\ HasParam(p, "search") <=> q # << >>
  /\ HasParam(p, "search") => ParamValue(p, "search") = q
  /\ HasParam(p, "language") <=> lang # "both"
  /\ HasParam(p, "language") => ParamValue(p, "language") = lang
  /\ HasParam(p, "sound_group") <=> sg # ""
  /\ HasParam(p, "sound_group") => ParamValue(p, "sound_group") = sg
  /\ HasParam(p, "verified_only") <=> vo
  /\ HasParam(p, "verified_only") => ParamValue(p, "verified_only") = "true"
  /\ (q = << >> /\ lang = "both" /\ sg = "" /\ ~vo) => p = << >>

\* C1: every request fetchEntries builds carries `search` iff the text is
\* non-empty, `language` iff the side is not both, `sound_group` iff a group is
\* selected and verified_only=true iff the flag is on, all in the one request;
\* with empty text and no filter it carries no parameter.
C1_RequestCarriesActiveFilters ==
  \A i \in 1..Len(fetches) :
    Carries(fetches[i], searchQuery, searchLanguage, soundGroupFilter,
            verifiedOnly)

\* a request with all four parameters is in flight
C1_Witness ==
  /\ Len(fetches) > 0
  /\ Len(fetches[1]) = 4
  /\ searchQuery # << >> /\ searchLanguage # "both"
  /\ soundGroupFilter # "" /\ verifiedOnly

Last(s) == s[Len(s)]

\* C2: a change of the search text issues no request and replaces the pending
\* timeout by one for the new text, so a pending timeout always holds the
\* current text; when the timeout expires it issues exactly one request, which
\* carries that (final) text, and no timeout is left.
C2_DebounceIssuesOnlyFinalText ==
  [][ /\ timer.armed => timer.q = searchQuery
      /\ searchQuery' # searchQuery =>
            /\ fetches' = fetches
            /\ timer'.armed /\ timer'.q = searchQuery'
      /\ (timer.armed /\ ~timer'.armed) =>
            /\ searchQuery' = searchQuery
            /\ Len(fetches') = Len(fetches) + 1
            /\ fetches' = Append(fetches, Last(fetches'))
            /\ HasParam(Last(fetches'), "search") <=> searchQuery # << >>
            /\ HasParam(Last(fetches'), "search") =>
                  ParamValue(Last(fetches'), "search") = searchQuery
    ]_vars

\* the debounce has just issued the request of a burst of two or more
\* changes, and that request carries the final text
C2_Witness ==
  /\ firedAfterBurst
  /\ ~timer.armed
  /\ Len(fetches) > 0
  /\ HasParam(Last(fetches), "search")
  /\ ParamValue(Last(fetches), "search") = searchQuery

FilterChanged ==
  \/ searchLanguage' # searchLanguage
  \/ soundGroupFilter' # soundGroupFilter
  \/ verifiedOnly' # verifiedOnly

\* C3: every change of the language side, the sound group or the
\* verified-only flag issues one request in the same step, carrying the new
\* filter values and the current search text, whether or not a debounce
\* timeout is pending.
C3_FilterChangeFetchesAtOnce ==
  [][ FilterChanged =>
        /\ searchQuery' = searchQuery
        /\ Len(fetches') = Len(fetches) + 1
        /\ fetches' = Append(fetches, Last(fetches'))
        /\ Carries(Last(fetches'), searchQuery, searchLanguage',
                   soundGroupFilter', verifiedOnly')
    ]_vars

\* a filter was changed while a debounce timeout for typed text is pending,
\* and the request already in flight carries both the text and the filter
C3_Witness ==
  /\ timer.armed
  /\ searchQuery # << >>
  /\ verifiedOnly
  /\ Len(fetches) > 0
  /\ Carries(Last(fetches), searchQuery, searchLanguage, soundGroupFilter,
             verifiedOnly)

\* C4: a request leaves the in-flight list only by its response being
\* handled, and the displayed entries are always the payload of the latest
\* successful response to arrive, also when that response answers an older
\* request than the one answered before it.
C4_LastResponseWins ==
  [][ /\ entries = lastDelivered
      /\ entries' = lastDelivered'
      /\ Len(fetches') >= Len(fetches) - 1
      /\ Len(fetches') < Len(fetches) =>
            \E i \in 1..Len(fetches) :
              /\ fetches' = RemoveAt(fetches, i)
              /\ \/ entries' = Search(store, fetches[i])
                 \/ /\ toast' = Toast("error", "Failed to load dictionary")
                    /\ entries' = entries
    ]_vars

\* every response is in, the last to arrive answered an older request than
\* the one before it, and the list shown is not that of the current query
C4_Witness ==
  /\ shownStale
  /\ fetches = << >>
  /\ ~timer.armed
  /\ toast = NoToast
  /\ entries = lastDelivered
  /\ entries # Search(store, BuildParams(searchQuery, searchLanguage,
                                         soundGroupFilter, verifiedOnly))

\* C5: on each of the three pages, a transcription that arrives with
\* non-empty text makes the page's input exactly that text; a failed
\* transcription, an empty one and a refused microphone leave the input as it
\* was (getUserMedia settling, granted or refused, never changes it); and the
\* mic button is never left in its stop mode with nothing to wait for: after
\* every transcription response isRecording is false, and while it is true a
\* recorder is recording or a transcription is in flight.
C5_VoiceInputSetsOrKeepsText ==
  [][ /\ transcribing' < transcribing =>
            /\ PageText' = IF heard'.ok /\ heard'.text # << >>
                             THEN heard'.text ELSE PageText
            /\ page # "dictionary" => ~isRecording'
      /\ micPending' < micPending => PageText' = PageText
      /\ (page # "dictionary" /\ isRecording) =>
            (recorder = "recording" \/ transcribing > 0)
      /\ page = "dictionary" => ~isRecording
    ]_vars

\* on the conversation page typed text was replaced by the transcription and
\* the mic button is back in its start mode
C5_Witness ==
  /\ page = "conversation"
  /\ heard.ok
  /\ heard.text = <<"h", "i">>
  /\ inputText = heard.text
  /\ ~isRecording
  /\ transcribing = 0
  /\ toast = Toast("success", "Voice captured!")

----------------------------------------------------------------------------
\* Properties of the forms

\* A required field of the form on the mounted page is the empty text
EmptyRequired ==
  IF page = "admin"
    THEN grammarForm.title = << >> \/ grammarForm.content = << >>
    ELSE wordForm.maay_word = << >> \/ wordForm.english_translation = << >>

\* The notification of a rejected submit: the form's error toast, or the
\* browser's message on the empty required input
Rejected ==
  \/ hint'
  \/ toast' = IF page = "admin"
                THEN Toast("error", "Please fill required fields")
                ELSE Toast("error", "Please fill in required fields")

\* C6: a submit of the word form with an empty word or translation, or of the
\* grammar-rule form with an empty title or content, ends in an error
\* notification, sends no request and leaves every list and collection as it
\* was; and no create or update request in flight carries an empty word,
\* translation, title or content.
C6_EmptyRequiredFieldRejected ==
  [][ /\ (submitTick' # submitTick /\ EmptyRequired) =>
           /\ Rejected
           /\ UNCHANGED <<saves, mutations, fetches, rounds>>
           /\ UNCHANGED <<entries, adminLists, store, grammarStore>>
      /\ \A k \in 1..Len(saves') :
           /\ saves'[k].body.maay_word # << >>
           /\ saves'[k].body.english_translation # << >>
      /\ \A k \in 1..Len(mutations') :
           mutations'[k].op = "grammar" =>
             /\ mutations'[k].body.title # << >>
             /\ mutations'[k].body.content # << >>
    ]_vars

\* the edit dialog holds a word without translation, its submit was answered
\* by the error toast and nothing was sent
C6_Witness ==
  /\ EditOpen
  /\ wordForm.maay_word # << >>
  /\ wordForm.english_translation = << >>
  /\ submitTick = 1
  /\ toast = Toast("error", "Please fill in required fields")
  /\ saves = << >>
  /\ fetches = << >>

----------------------------------------------------------------------------
\* Properties of the moderation

\* The query strings fetchEntries builds with the verified-only switch on
VerifiedOnlySearches ==
  { BuildParams(q, l, FromGroupSelect(g), TRUE) :
      q \in ParamQueries, l \in Languages, g \in GroupOptions }

\* C7: an entry created by a non-privileged user is unverified for as long as
\* no approve request on it has succeeded, and no search with
\* verified_only=true, whatever its text and other filters, returns such an
\* entry before an approve request on it has succeeded.
C7_PendingUntilApproved ==
  /\ \A e \in store :
       e.entry_id \in userCreated \ approved => ~e.is_verified
  /\ \A p \in VerifiedOnlySearches :
       \A e \in Search(store, p) :
         e.entry_id \in userCreated => e.entry_id \in approved

\* this admin has approved the entry a non-privileged user created (the seed
\* pending entry is still pending), and the verified-only search returns it
C7_Witness ==
  /\ 3 \in userCreated
  /\ 3 \in approved
  /\ 2 \in IdsOf(PendingOf(store))
  /\ toast = Toast("success", "Entry approved!")
  /\ 3 \in IdsOf(Search(store, BuildParams(<< >>, "both", "", TRUE)))

\* The state of entry id in collection st when n is the next id
Life(st, n, id) ==
  CASE id >= n             -> "unborn"
    [] id \notin IdsOf(st) -> "deleted"
    [] OTHER               ->
         IF (CHOOSE e \in st : e.entry_id = id).is_verified
           THEN "verified" ELSE "pending"

\* C8: every change of an entry's state is a creation, pending to verified
\* or pending to deleted (so deleted is terminal and verified never returns
\* to pending); an approve or reject the server handles for a deleted id is
\* answered not-found and leaves the collection unchanged, and the not-found
\* answer shows the failure notification.
C8_LifecycleOnlyFromPending ==
  [][ /\ \A id \in 1..MaxEntries :
           LET a == Life(store, nextId, id)
               b == Life(store', nextId', id)
           IN  a # b =>
                 \/ a = "unborn" /\ b \in { "pending", "verified" }
                 \/ a = "pending" /\ b \in { "verified", "deleted" }
      /\ \A i \in 1..Len(mutations) :
           /\ ( /\ mutations[i].st = "sent"
                /\ mutations[i].op \in { "verify", "delete" }
                /\ Life(store, nextId, mutations[i].id) = "deleted"
                /\ Len(mutations') = Len(mutations)
                /\ mutations'[i] # mutations[i] )
                  => store' = store /\ mutations'[i].st = "notfound"
           /\ ( /\ mutations[i].st = "notfound"
                /\ mutations' = RemoveAt(mutations, i) )
                  => toast' = FailureToast(mutations[i].op)
    ]_vars

\* C9: an entry for which the server has handled an approve or reject of this
\* admin and one of another admin is verified or deleted, never pending
\* again; and once this admin's page has applied a refresh that it requested
\* after both requests had been handled, its pending list no longer shows
\* the entry.
C9_RefreshEndsStaleListing ==
  /\ \A id \in byThis \cap byOther :
       Life(store, nextId, id) \in { "verified", "deleted" }
  /\ \A id \in healed : id \notin IdsOf(pendingEntries)

----------------------------------------------------------------------------
\* Properties of the cards

\* Neither admin nor contributor, though signed in
Plain(u) == u.signedIn /\ ~u.is_admin /\ ~u.is_contributor

\* C10: a card shows a signed-in user exactly one of the edit and the
\* suggest-edit buttons, the edit button iff the user is an admin or a
\* contributor, and shows a signed-out visitor neither; the edit dialog is
\* never open for a signed-in user who is neither, and no PUT request is sent
\* with the session of such a user.
C10_OneActionPerCard ==
  /\ CardActions(user) \subseteq { "edit", "suggest" }
  /\ Cardinality(CardActions(user)) = IF user.signedIn THEN 1 ELSE 0
  /\ "edit" \in CardActions(user) <=>
       user.signedIn /\ (user.is_admin \/ user.is_contributor)
  /\ EditOpen => ~Plain(user)
  /\ \A k \in 1..Len(saves) : saves[k].kind = "PUT" => ~Plain(saves[k].by)

\* a contributor who is no admin has a PUT in flight from the edit dialog, and
\* the cards behind it show the edit button
C10_Witness ==
  /\ user = User(FALSE, TRUE)
  /\ CardActions(user) = { "edit" }
  /\ EditOpen
  /\ Len(saves) = 1
  /\ saves[1].kind = "PUT"
  /\ saves[1].by = user
  /\ saves[1].st = "ok"

----------------------------------------------------------------------------
\* Every mutating request of the two pages: the handlers of AdminPage with
\* BulkUploadDialog, and the word and suggest dialogs of DictionaryPage

\* The entry object of a JSON text an admin uploads, and a JSON value that is
\* no entry
BulkEntry ==
  [kind |-> "object", maay_word |-> <<"n">>, english_translation |-> <<"u">>]

JsonNumber == [kind |-> "number"]

JsonObject == [kind |-> "object", maay_word |-> << >>,
               english_translation |-> << >>]

\* The texts of the textarea: the letter e stands for the text of the entry
\* object, 1 for a number, {} is the empty object, x is no JSON
JsonTexts ==
  { <<" ">>, <<"x">>, <<"[">>, <<"1">>, <<"{", "}">>, <<"[", "]">>,
    <<"[", "e", "]">>, <<"[", "e", ",", "e", "]">>, <<"[", "1", "]">>,
    <<"[", "e", ",", "]">> }

SyntaxError == [ok |-> FALSE, isArray |-> FALSE, items |-> << >>]

Parsed(isArray, items) == [ok |-> TRUE, isArray |-> isArray, items |-> items]

JsonScalars == { "e", "1" }

JsonScalar(c) == IF c = "e" THEN BulkEntry ELSE JsonNumber

\* The elements between the brackets: values separated by commas
RECURSIVE ParseElements(_)
ParseElements(t) ==
  IF t = << >> \/ Head(t) \notin JsonScalars THEN SyntaxError
  ELSE IF Len(t) = 1 THEN Parsed(TRUE, << JsonScalar(t[1]) >>)
  ELSE IF t[2] # "," THEN SyntaxError
  ELSE LET rest == ParseElements(SubSeq(t, 3, Len(t)))
       IN  IF rest.ok THEN Parsed(TRUE, << JsonScalar(t[1]) >> \o rest.items)
           ELSE SyntaxError

\* A parser that reads every text as an array of one entry
JsonParseLenient(text) == Parsed(TRUE, << BulkEntry >>)

\* JSON.parse(jsonData), with Array.isArray of its value: white space around
\* the value is skipped, a text that is no JSON value throws
JsonParse(text) ==
  LET t == Trim(text)
  IN  IF t = << >> THEN SyntaxError
      ELSE IF Len(t) = 1 /\ t[1] \in JsonScalars
        THEN Parsed(FALSE, << JsonScalar(t[1]) >>)
      ELSE IF t = <<"{", "}">> THEN Parsed(FALSE, << JsonObject >>)
      ELSE IF Len(t) >= 2 /\ t[1] = "[" /\ t[Len(t)] = "]"
        THEN IF Len(t) = 2 THEN Parsed(TRUE, << >>)
             ELSE ParseElements(SubSeq(t, 2, Len(t) - 1))
      ELSE SyntaxError

offBulk == <<adminLists, adminLoading, rounds, grammarDialog, store,
             serverVars, moderationGhosts, besideAdmin, track, suggestVars,
             gapVars, chatVars, laterVars>>

\* DialogTrigger "Bulk Upload": setOpen(true)
OpenBulkDialog ==
  /\ page = "admin"
  /\ ~bulkOpen
  /\ bulkOpen' = TRUE
  /\ UNCHANGED <<jsonData, bulkLoading, mutations, toast>>
  /\ UNCHANGED offBulk

\* Cancel, or the dialog's onOpenChange: setOpen(false); the text stays
CloseBulkDialog ==
  /\ bulkOpen
  /\ bulkOpen' = FALSE
  /\ UNCHANGED <<jsonData, bulkLoading, mutations, toast>>
  /\ UNCHANGED offBulk

\* onChange of the textarea: setJsonData(e.target.value)
TypeJson(text) ==
  /\ bulkOpen
  /\ text # jsonData
  /\ jsonData' = text
  /\ UNCHANGED <<bulkOpen, bulkLoading, mutations, toast>>
  /\ UNCHANGED offBulk

\* "Upload", which is disabled while the dialog is loading and while the
\* text is blank: BulkUploadDialog.handleUpload and handleBulkUpload up to
\* its await
HandleBulkUpload ==
  /\ page = "admin"
  /\ bulkOpen
  /\ ~bulkLoading
  /\ Truthy(Trim(jsonData))
  /\ LET p == JsonParse(jsonData)
     IN  IF ~p.ok
           THEN /\ toast' = Toast("error", "Invalid JSON format")
                /\ UNCHANGED <<mutations, bulkVars>>
         ELSE IF ~p.isArray
           THEN /\ toast' = Toast("error", "Data must be an array of entries")
                /\ UNCHANGED <<mutations, bulkVars>>
         ELSE /\ Len(mutations) < MaxMutations
              /\ bulkLoading' = TRUE
              /\ mutations' = Append(mutations, Mutation("bulk", 0, p.items))
              /\ UNCHANGED <<toast, bulkOpen, jsonData>>
  /\ UNCHANGED offBulk

\* The kinds of mutation of AdminPage; a behaviour exercises one of them, or
\* the dialogs of DictionaryPage
AdminLanes ==
  { "entry-mutations", "gap-mutations", "grammar-mutations",
    "bulk-mutations" }

\* An admin on the admin page, or a contributor or a plain user on the
\* dictionary page
InitMutations ==
  \/ /\ track = "word-mutations"
     /\ DictionaryLoaded
     /\ session \in { User(FALSE, TRUE), User(FALSE, FALSE) }
     /\ user = session
     /\ logoutPending = "no"
  \/ /\ track \in AdminLanes
     /\ AdminMounted

NextMutations ==
  \/ track = "entry-mutations" /\ \E id \in 1..MaxEntries :
                                    HandleApproveEntry(id)
  \/ track = "entry-mutations" /\ \E id \in 1..MaxEntries :
                                    HandleRejectEntry(id)
  \/ track = "gap-mutations" /\ \E id \in GapIds : ShowGapInput(id)
  \/ track = "gap-mutations" /\ \E id \in GapIds :
                                  TypeGapSuggestion(id, <<"w">>)
  \/ track = "gap-mutations" /\ \E id \in GapIds : HandleSuggest(id)
  \/ track = "gap-mutations" /\ \E id \in GapIds : HandleApproveGap(id)
  \/ track = "grammar-mutations" /\ OpenGrammarDialog
  \/ track = "grammar-mutations" /\ \E r \in RuleForms :
                                      ~RuleFormIncomplete(r) /\ TypeRule(r)
  \/ track = "grammar-mutations" /\ RequestSubmitRule
  \/ track = "bulk-mutations" /\ OpenBulkDialog
  \/ track = "bulk-mutations" /\ CloseBulkDialog
  \/ track = "bulk-mutations" /\ \E text \in JsonTexts : TypeJson(text)
  \/ track = "bulk-mutations" /\ HandleBulkUpload
  \/ \E i \in 1..MaxMutations : ServeMutation(i)
  \/ \E i \in 1..MaxMutations : MutationSucceeds(i)
  \/ \E i \in 1..MaxMutations : MutationFails(i)
  \/ \E i \in 1..MaxRounds, part \in { "pending", "gaps", "grammar" } :
       ServeGet(i, part)
  \/ \E i \in 1..MaxRounds : RoundSucceeds(i)
  \/ \E i \in 1..MaxRounds : RoundFails(i)
  \/ OpenAddDialog
  \/ \E id \in 1..MaxEntries : OnEdit(id)
  \/ \E f \in WordForms : ~WordFormIncomplete(f) /\ TypeWord(f)
  \/ RequestSubmit
  \/ \E i \in 1..MaxSaves : ServeSave(i)
  \/ \E i \in 1..MaxSaves : SaveSucceeds(i)
  \/ \E i \in 1..MaxSaves : SaveFails(i)
  \/ \E i \in 1..MaxInflight : FetchSucceeds(i)
  \/ \E i \in 1..MaxInflight : FetchFails(i)
  \/ \E id \in 1..MaxEntries : OnSuggestEdit(id)
  \/ SubmitSuggestion
  \/ \E i \in 1..MaxSuggests : ServeSuggest(i)
  \/ \E i \in 1..MaxSuggests : SuggestSucceeds(i)
  \/ \E i \in 1..MaxSuggests : SuggestFails(i)

SpecMutations == InitMutations /\ [][NextMutations]_vars

----------------------------------------------------------------------------
\* The chat: sendMessage and clearConversation of ConversationPage

\* Messages the list may hold
MaxMessages == 4

\* The reply of POST /chat
Reply == <<"r">>

\* The request awaits the server or its answer
ChatInFlight == chat.st \in { "sent", "ok" }

\* prev.slice(0, -1)
SliceOffLast(ms) == SubSeq(ms, 1, Len(ms) - 1)

\* what the chat handlers leave alone
offChat == <<page, sourceText, isRecording, micPending, recorder,
             dictRecorders, transcribing, heard, store, searchState,
             superseded, shownStale, lastDelivered, track, suggestVars,
             gapVars, bulkVars, laterVars, offVoice>>

\* sendMessage up to the await of axios.post
SendMessage ==
  /\ page = "conversation"
  /\ Truthy(Trim(inputText))
  /\ ~chatLoading
  /\ Len(messages) + 2 <= MaxMessages
  /\ messages' = Append(messages, Message("user", inputText))
  /\ inputText' = << >>
  /\ chatLoading' = TRUE
  /\ chat' = [st |-> "sent", message |-> inputText,
              conversation_id |-> conversationId, before |-> messages,
              terms |-> 0]
  /\ UNCHANGED <<conversationId, toast>>
  /\ UNCHANGED offChat

\* The server answers the request with a reply, the conversation's id and
\* the number of terms it could not translate
ServeChat(n) ==
  /\ chat.st = "sent"
  /\ chat' = [chat EXCEPT !.st = "ok", !.terms = n,
                          !.conversation_id = IF @ = 0 THEN 1 ELSE @]
  /\ UNCHANGED <<messages, chatLoading, conversationId, inputText, toast>>
  /\ UNCHANGED offChat

\* The 2xx answer arrives: setConversationId, the reply is appended, the
\* note about untranslated terms, and finally setLoading(false)
ChatSucceeds ==
  /\ chat.st = "ok"
  /\ conversationId' = chat.conversation_id
  /\ messages' = Append(messages, Message("assistant", Reply))
  /\ toast' = IF chat.terms > 0
                THEN Toast("info", "terms couldn't be translated")
                ELSE toast
  /\ chatLoading' = FALSE
  /\ chat' = [chat EXCEPT !.st = "succeeded"]
  /\ UNCHANGED inputText
  /\ UNCHANGED offChat

\* The catch branch: an error answer, or no answer
ChatFails ==
  /\ ChatInFlight
  /\ toast' = Toast("error", "Failed to send message. Please try again.")
  /\ messages' = SliceOffLast(messages)
  /\ chatLoading' = FALSE
  /\ chat' = [chat EXCEPT !.st = "failed"]
  /\ UNCHANGED <<conversationId, inputText>>
  /\ UNCHANGED offChat

\* The trash button of the header, which is never disabled
ClearConversation ==
  /\ page = "conversation"
  /\ messages' = << Cleared >>
  /\ conversationId' = 0
  /\ toast' = Toast("success", "Conversation cleared")
  /\ UNCHANGED <<chatLoading, chat, inputText>>
  /\ UNCHANGED offChat

InitChat ==
  /\ page = "conversation"
  /\ VoiceIdle
  /\ AuthIdle
  /\ DialogsIdle
  /\ AdminIdle
  /\ ServerInit
  /\ ChatIdle
  /\ BulkIdle
  /\ LaterIdle
  /\ searchQuery = << >>
  /\ searchLanguage = "both"
  /\ soundGroupFilter = ""
  /\ verifiedOnly = FALSE
  /\ entries = {}
  /\ loading = FALSE
  /\ timer = NoTimer
  /\ fetches = << >>
  /\ store = SeedStore
  /\ toast = NoToast
  /\ superseded = 0
  /\ shownStale = FALSE
  /\ lastDelivered = {}
  /\ burst = 0
  /\ firedAfterBurst = FALSE
  /\ track = "chat"

NextChat ==
  \/ \E t \in ChatTexts : TypeText(t)
  \/ SendMessage
  \/ \E n \in 0..1 : ServeChat(n)
  \/ ChatSucceeds
  \/ ChatFails
  \/ ClearConversation

SpecChat == InitChat /\ [][NextChat]_vars

----------------------------------------------------------------------------
\* The routes: AuthProvider, ProtectedRoute around AdminPage, the back button
\* of AdminPage and the logout button of LandingPage

\* What the /admin route renders: the spinner of ProtectedRoute ("gate"), a
\* redirect to /login or to /, or AdminPage
ProtectedRoute(u, pending) ==
  IF pending THEN "gate"
  ELSE IF ~u.signedIn THEN "login"
  ELSE IF ~u.is_admin THEN "landing"
  ELSE "admin"

\* if (!user?.is_admin) of a rendered AdminPage: the access-denied card
AccessDenied == page = "admin" /\ ~user.is_admin

\* what the routing leaves alone
offRoute == <<searchState, superseded, shownStale, lastDelivered, elsewhere,
              dialogVars, serverVars, moderationGhosts, store, inputText,
              sourceText, isRecording, micPending, recorder, dictRecorders,
              transcribing, heard>>

\* AdminPage mounts: its initial state, and fetchData() of its effect
MountAdminPage ==
  /\ stats' = "null"
  /\ pendingEntries' = {}
  /\ vocabularyGaps' = {}
  /\ grammarRules' = {}
  /\ adminLoading' = TRUE
  /\ rounds' = Append(rounds, NewRound)
  /\ UNCHANGED <<mutations, grammarDialog>>

\* checkAuth settles with the session's user (ok) or with null; the route
\* that showed the spinner renders again
CheckAuthSettles(ok) ==
  /\ authPending
  /\ authPending' = FALSE
  /\ user' = IF ok THEN session ELSE NoUser
  /\ page' = IF page = "gate" THEN ProtectedRoute(user', FALSE) ELSE page
  /\ IF page' = "admin" THEN MountAdminPage ELSE UNCHANGED adminVars
  /\ UNCHANGED <<logoutPending, session, toast>>
  /\ UNCHANGED offRoute

\* The back button of AdminPage: navigate('/'); the page unmounts, the
\* requests of its handlers stay in flight
NavigateHome ==
  /\ page = "admin"
  /\ page' = "landing"
  /\ stats' = "null"
  /\ pendingEntries' = {}
  /\ vocabularyGaps' = {}
  /\ grammarRules' = {}
  /\ adminLoading' = FALSE
  /\ UNCHANGED <<rounds, mutations, grammarDialog>>
  /\ UNCHANGED <<authVars, toast>>
  /\ UNCHANGED offRoute

\* The logout button of LandingPage: logout() up to its await
Logout ==
  /\ page = "landing"
  /\ user.signedIn
  /\ logoutPending = "no"
  /\ logoutPending' = "sent"
  /\ UNCHANGED <<user, authPending, session>>
  /\ UNCHANGED <<page, adminVars, toast>>
  /\ UNCHANGED offRoute

\* logout() after its await, answered or failed: setUser(null)
LogoutSettles ==
  /\ page = "landing"
  /\ logoutPending # "no"
  /\ logoutPending' = "no"
  /\ user' = NoUser
  /\ lastAuth' = IF track = "auth" THEN "out" ELSE lastAuth
  /\ UNCHANGED <<authPending, session>>
  /\ UNCHANGED <<page, adminVars, toast>>
  /\ UNCHANGED <<searchState, superseded, shownStale, lastDelivered, track,
                 suggestVars, gapVars, chatVars, bulkVars, callbackVars,
                 donateVars, audioVars, dialogVars, serverVars,
                 moderationGhosts, store, inputText, sourceText, isRecording,
                 micPending, recorder, dictRecorders, transcribing, heard>>

\* Promise.all of round i resolves after AdminPage has unmounted: its state
\* setters do nothing
RoundDropped(i) ==
  /\ page # "admin"
  /\ i \in 1..Len(rounds)
  /\ rounds[i].pending.served /\ rounds[i].grammar.served
  /\ rounds[i].gaps.served
  /\ rounds' = RemoveAt(rounds, i)
  /\ UNCHANGED <<adminLists, adminLoading, mutations, grammarDialog>>
  /\ UNCHANGED <<page, authVars, toast>>
  /\ UNCHANGED offRoute

\* The browser opens /admin: AuthProvider has just started checkAuth
InitRoute ==
  /\ page = "gate"
  /\ user = NoUser
  /\ authPending = TRUE
  /\ logoutPending = "no"
  /\ session \in Users \cup { NoUser }
  /\ VoiceIdle
  /\ DialogsIdle
  /\ AdminIdle
  /\ ServerInit
  /\ ChatIdle
  /\ BulkIdle
  /\ LaterIdle
  /\ searchQuery = << >>
  /\ searchLanguage = "both"
  /\ soundGroupFilter = ""
  /\ verifiedOnly = FALSE
  /\ entries = {}
  /\ loading = FALSE
  /\ timer = NoTimer
  /\ fetches = << >>
  /\ store = SeedStore
  /\ toast = NoToast
  /\ superseded = 0
  /\ shownStale = FALSE
  /\ lastDelivered = {}
  /\ burst = 0
  /\ firedAfterBurst = FALSE
  /\ track = "route"

NextRoute ==
  \/ \E ok \in BOOLEAN : CheckAuthSettles(ok)
  \/ \E id \in 1..MaxEntries : HandleApproveEntry(id)
  \/ \E id \in 1..MaxEntries : HandleRejectEntry(id)
  \/ \E i \in 1..MaxMutations : ServeMutation(i)
  \/ \E i \in 1..MaxMutations : MutationSucceeds(i)
  \/ \E i \in 1..MaxMutations : MutationFails(i)
  \/ \E i \in 1..MaxRounds, part \in { "pending", "grammar" } :
       ServeGet(i, part)
  \/ \E i \in 1..MaxRounds : page = "admin" /\ RoundSucceeds(i)
  \/ \E i \in 1..MaxRounds : RoundDropped(i)
  \/ \E i \in 1..MaxRounds : RoundFails(i)
  \/ NavigateHome
  \/ Logout
  \/ ServeLogout
  \/ LogoutSettles

SpecRoute == InitRoute /\ [][NextRoute]_vars

----------------------------------------------------------------------------
\* Signing in: AuthCallback, LoginPage and the checkAuth of the page load

\* The fragments a page is loaded with: the parameters after the #
HashKeys == { "session_id", "x_session_id", "state" }

Hashes ==
  { << >>,
    << [k |-> "session_id", v |-> <<"s">>] >>,
    << [k |-> "session_id", v |-> << >>] >>,
    << [k |-> "state", v |-> <<"s">>] >>,
    << [k |-> "x_session_id", v |-> <<"s">>] >>,
    << [k |-> "state", v |-> <<"s">>], [k |-> "session_id", v |-> <<"s">>] >> }

\* location.hash?.includes('session_id='): the text occurs in some key=value
HashIncludes(h) ==
  \E i \in 1..Len(h) : h[i].k \in { "session_id", "x_session_id" }

\* new URLSearchParams(hash.substring(1)).get('session_id'): the value of the
\* first parameter of that name, the empty text for null
RECURSIVE SessionId(_)
SessionId(h) ==
  IF h = << >> THEN << >>
  ELSE IF Head(h).k = "session_id" THEN Head(h).v
  ELSE SessionId(Tail(h))

\* The paths a page is loaded at
Paths == { "/", "/login", "/auth/callback", "/admin" }

\* AppRouter at the page load, while checkAuth is pending
AppRouter(path, h) ==
  IF HashIncludes(h) THEN "callback"
  ELSE CASE path = "/auth/callback" -> "callback"
         [] path = "/login"         -> "login"
         [] path = "/admin"         -> "gate"
         [] OTHER                   -> "landing"

\* The runs of AuthCallback's mount effect: two under StrictMode
MaxEffectRuns == 2

offAuth == <<searchState, superseded, shownStale, lastDelivered, track,
             suggestVars, gapVars, chatVars, bulkVars, donateVars, audioVars,
             dialogVars, adminVars, serverVars, moderationGhosts, store,
             inputText, sourceText, isRecording, micPending, recorder,
             dictRecorders, transcribing, heard>>

\* the same without the state of AdminPage, which mounts when the route
\* renders it
offAuthRoute == <<searchState, superseded, shownStale, lastDelivered, track,
                  suggestVars, gapVars, chatVars, bulkVars, donateVars,
                  audioVars, dialogVars, serverVars, moderationGhosts, store,
                  inputText, sourceText, isRecording, micPending, recorder,
                  dictRecorders, transcribing, heard>>

\* if (hasProcessed.current) return
AlreadyProcessedNever(done) == FALSE

AlreadyProcessed(done) == done

\* The mount effect of AuthCallback runs: processAuth up to its await, or to
\* its catch when the fragment has no session id
CallbackEffect ==
  /\ page = "callback"
  /\ effectRuns < MaxEffectRuns
  /\ effectRuns' = effectRuns + 1
  /\ IF AlreadyProcessed(hasProcessed)
       THEN UNCHANGED <<hasProcessed, exchange, cbError, cbTimer, toast>>
       ELSE /\ hasProcessed' = TRUE
            /\ IF Truthy(SessionId(urlHash))
                 THEN /\ exchange' = [st |-> "sent",
                                      issued |-> exchange.issued + 1]
                      /\ UNCHANGED <<cbError, cbTimer, toast>>
                 ELSE /\ cbError' = TRUE
                      /\ cbTimer' = TRUE
                      /\ toast' = Toast("error",
                                   "Authentication failed. Please try again.")
                      /\ UNCHANGED exchange
  /\ UNCHANGED <<page, authVars, urlHash, loginReq, me, lastAuth>>
  /\ UNCHANGED offAuth

\* The server handles POST /auth/session: a session for the user of a valid
\* session id, an answer without a user, or an error
ServeExchange(u, answer) ==
  /\ exchange.st = "sent"
  /\ exchange' = [exchange EXCEPT !.st = answer]
  /\ session' = IF answer = "ok" THEN u ELSE session
  /\ UNCHANGED <<user, authPending, logoutPending>>
  /\ UNCHANGED <<page, urlHash, hasProcessed, effectRuns, cbError, cbTimer,
                 loginReq, me, lastAuth, toast>>
  /\ UNCHANGED offAuth

\* processAuth after its await with response.data.user: setUser, toast,
\* replaceState and navigate('/')
ExchangeSucceeds ==
  /\ exchange.st = "ok"
  /\ exchange' = [exchange EXCEPT !.st = "done"]
  /\ user' = session
  /\ lastAuth' = "in"
  /\ toast' = Toast("success", "Welcome, ${response.data.user.name}!")
  /\ urlHash' = << >>
  /\ page' = "landing"
  /\ UNCHANGED <<authPending, logoutPending, session>>
  /\ UNCHANGED <<hasProcessed, effectRuns, cbError, cbTimer, loginReq, me>>
  /\ UNCHANGED offAuth

\* processAuth's catch: the request failed or its answer has no user;
\* setError, toast, and the 2 s timeout
ExchangeFails ==
  /\ exchange.st \in { "sent", "nouser", "refused" }
  /\ exchange' = [exchange EXCEPT !.st = "failed"]
  /\ cbError' = TRUE
  /\ cbTimer' = TRUE
  /\ toast' = Toast("error", "Authentication failed. Please try again.")
  /\ UNCHANGED <<page, authVars, urlHash, hasProcessed, effectRuns, loginReq,
                 me, lastAuth>>
  /\ UNCHANGED offAuth

\* The timeout of the catch fires: navigate('/', { replace: true })
CallbackTimeout ==
  /\ cbTimer
  /\ cbTimer' = FALSE
  /\ page' = "landing"
  /\ urlHash' = << >>
  /\ UNCHANGED <<authVars, hasProcessed, effectRuns, exchange, cbError,
                 loginReq, me, lastAuth, toast>>
  /\ UNCHANGED offAuth

\* The sign-in link of LandingPage, shown while there is no user
GoToLogin ==
  /\ page = "landing"
  /\ ~user.signedIn
  /\ page' = "login"
  /\ UNCHANGED <<authVars, callbackVars, lastAuth, toast>>
  /\ UNCHANGED offAuth

\* LoginPage.handleSubmit with email and password filled in, up to its await
\* (the submit button is disabled while loading)
LoginSubmit ==
  /\ page = "login"
  /\ loginReq.st = "none"
  /\ loginReq' = [st |-> "sent"]
  /\ UNCHANGED <<page, authVars, urlHash, hasProcessed, effectRuns, exchange,
                 cbError, cbTimer, me, lastAuth, toast>>
  /\ UNCHANGED offAuth

\* The server handles POST /auth/login: a session for the user, or an error
ServeLogin(u, ok) ==
  /\ loginReq.st = "sent"
  /\ loginReq' = [st |-> IF ok THEN "ok" ELSE "refused"]
  /\ session' = IF ok THEN u ELSE session
  /\ UNCHANGED <<user, authPending, logoutPending>>
  /\ UNCHANGED <<page, urlHash, hasProcessed, effectRuns, exchange, cbError,
                 cbTimer, me, lastAuth, toast>>
  /\ UNCHANGED offAuth

\* handleSubmit after its await with response.data.user: setUser, toast,
\* navigate('/')
LoginSucceeds ==
  /\ loginReq.st = "ok"
  /\ loginReq' = NoRequest
  /\ user' = session
  /\ lastAuth' = "in"
  /\ toast' = Toast("success", "Welcome back, ${response.data.user.name}!")
  /\ page' = IF page = "login" THEN "landing" ELSE page
  /\ UNCHANGED <<authPending, logoutPending, session>>
  /\ UNCHANGED <<urlHash, hasProcessed, effectRuns, exchange, cbError,
                 cbTimer, me>>
  /\ UNCHANGED offAuth

\* handleSubmit's catch
LoginFails ==
  /\ loginReq.st \in { "sent", "refused" }
  /\ loginReq' = NoRequest
  /\ toast' = Toast("error", "Authentication failed")
  /\ UNCHANGED <<page, authVars, urlHash, hasProcessed, effectRuns, exchange,
                 cbError, cbTimer, me, lastAuth>>
  /\ UNCHANGED offAuth

\* The server handles the GET /auth/me of checkAuth: the user of the session
\* of the cookie the request was sent with, or an error
ServeMe ==
  /\ me.st = "sent"
  /\ me' = IF me.cookie /\ session.signedIn
             THEN [st |-> "ok", user |-> session]
             ELSE [st |-> "refused"]
  /\ UNCHANGED <<page, authVars, urlHash, hasProcessed, effectRuns, exchange,
                 cbError, cbTimer, loginReq, lastAuth, toast>>
  /\ UNCHANGED offAuth

\* checkAuth after its await: setUser(response.data), setLoading(false); a
\* protected route that showed the spinner renders again
MeArrives ==
  /\ me.st = "ok"
  /\ me' = NoRequest
  /\ user' = me.user
  /\ authPending' = FALSE
  /\ page' = IF page = "gate" THEN ProtectedRoute(me.user, FALSE) ELSE page
  /\ IF page' = "admin" /\ page # "admin" THEN MountAdminPage
                                           ELSE UNCHANGED adminVars
  /\ UNCHANGED <<logoutPending, session>>
  /\ UNCHANGED <<urlHash, hasProcessed, effectRuns, exchange, cbError,
                 cbTimer, loginReq, lastAuth, toast>>
  /\ UNCHANGED offAuthRoute

\* checkAuth's catch: setUser(null), setLoading(false)
MeFails ==
  /\ me.st \in { "sent", "refused" }
  /\ me' = NoRequest
  /\ user' = NoUser
  /\ authPending' = FALSE
  /\ page' = IF page = "gate" THEN "login" ELSE page
  /\ UNCHANGED <<logoutPending, session>>
  /\ UNCHANGED <<urlHash, hasProcessed, effectRuns, exchange, cbError,
                 cbTimer, loginReq, lastAuth, toast>>
  /\ UNCHANGED offAuth

\* A page load: AuthProvider mounts and starts checkAuth with the cookie the
\* browser holds, AppRouter renders the page of the path and the fragment
InitAuth ==
  /\ track = "auth"
  /\ urlHash \in Hashes
  /\ \E path \in Paths : page = AppRouter(path, urlHash)
  /\ user = NoUser
  /\ authPending = TRUE
  /\ logoutPending = "no"
  /\ session \in { NoUser, User(FALSE, FALSE), User(TRUE, FALSE) }
  /\ me = [st |-> "sent", cookie |-> session.signedIn]
  /\ hasProcessed = FALSE
  /\ effectRuns = 0
  /\ exchange = NoExchange
  /\ cbError = FALSE
  /\ cbTimer = FALSE
  /\ loginReq = NoRequest
  /\ lastAuth = "none"
  /\ DonateIdle
  /\ AudioIdle
  /\ BulkIdle
  /\ VoiceIdle
  /\ DialogsIdle
  /\ AdminIdle
  /\ ServerInit
  /\ ChatIdle
  /\ searchQuery = << >>
  /\ searchLanguage = "both"
  /\ soundGroupFilter = ""
  /\ verifiedOnly = FALSE
  /\ entries = {}
  /\ loading = FALSE
  /\ timer = NoTimer
  /\ fetches = << >>
  /\ store = SeedStore
  /\ toast = NoToast
  /\ superseded = 0
  /\ shownStale = FALSE
  /\ lastDelivered = {}
  /\ burst = 0
  /\ firedAfterBurst = FALSE

NextAuth ==
  \/ CallbackEffect
  \/ \E u \in { User(FALSE, FALSE), User(TRUE, FALSE) },
        answer \in { "ok", "nouser", "refused" } : ServeExchange(u, answer)
  \/ ExchangeSucceeds
  \/ ExchangeFails
  \/ CallbackTimeout
  \/ GoToLogin
  \/ LoginSubmit
  \/ \E u \in { User(FALSE, FALSE), User(TRUE, FALSE) }, ok \in BOOLEAN :
       ServeLogin(u, ok)
  \/ LoginSucceeds
  \/ LoginFails
  \/ ServeMe
  \/ MeArrives
  \/ MeFails
  \/ Logout
  \/ ServeLogout
  \/ LogoutSettles

SpecAuth == InitAuth /\ [][NextAuth]_vars

\* The effect of a mounted component runs, and a timeout that is set fires
SpecAuthFair ==
  /\ SpecAuth
  /\ WF_vars(CallbackEffect)
  /\ WF_vars(CallbackTimeout)

----------------------------------------------------------------------------
\* DonatePage: the amount, handleDonate and POST /donations/create-checkout

DONATION_AMOUNTS == { 10, 25, 50, 100, 250, 500 }

\* a JavaScript number that is an integer, or NaN
NaN == [nan |-> TRUE, n |-> 0]

Num(n) == [nan |-> FALSE, n |-> n]

Digits == { "0", "1", "2", "3", "4", "5", "6", "7", "8", "9" }

DigitOf(c) ==
  CASE c = "0" -> 0 [] c = "1" -> 1 [] c = "2" -> 2 [] c = "3" -> 3
    [] c = "4" -> 4 [] c = "5" -> 5 [] c = "6" -> 6 [] c = "7" -> 7
    [] c = "8" -> 8 [] c = "9" -> 9

\* the value of the longest prefix of digits of s, after the digits read
RECURSIVE DigitsValue(_, _)
DigitsValue(s, acc) ==
  IF s = << >> \/ Head(s) \notin Digits THEN acc
  ELSE DigitsValue(Tail(s), acc * 10 + DigitOf(Head(s)))

RECURSIVE TrimStart(_)
TrimStart(s) ==
  IF s # << >> /\ Head(s) = " " THEN TrimStart(Tail(s)) ELSE s

\* parseInt(text): leading blanks are skipped, a sign is read, then the
\* longest prefix of digits; NaN when there is no digit at that place
ParseInt(text) ==
  LET s == TrimStart(text)
      signed == s # << >> /\ Head(s) \in { "-", "+" }
      body == IF signed THEN Tail(s) ELSE s
  IN  IF body = << >> \/ Head(body) \notin Digits THEN NaN
      ELSE IF signed /\ Head(s) = "-" THEN Num(0 - DigitsValue(body, 0))
      ELSE Num(DigitsValue(body, 0))

\* const amount = customAmount ? parseInt(customAmount) : selectedAmount
Amount(custom, selected) ==
  IF Truthy(custom) THEN ParseInt(custom) ELSE Num(selected)

\* !amount
Falsy(a) == a.nan \/ a.n = 0

\* amount < 1, false for NaN
BelowOne(a) == ~a.nan /\ a.n < 1

\* amount: amount * 100 of the request body
CentsAsDollars(a) == a.n

Cents(a) == a.n * 100

\* the values typed into the name and the email input
DonorTexts == { << >>, <<"n">> }

\* the values of the custom amount input, an input of type number
CustomTexts ==
  { << >>, <<"5">>, <<"0">>, <<"-", "3">>, <<"1", ".", "5">>,
    <<"2", ".", "0">> }

\* the preset buttons that are clicked
PresetsClicked == { amt \in DONATION_AMOUNTS : amt \in { 25, 500 } }

MaxCheckouts == 2

\* the digits after the point of a decimal text are all 0
RECURSIVE WholeFrom(_)
WholeFrom(s) ==
  IF s = << >> THEN TRUE
  ELSE IF Head(s) \in Digits \ { "0" } THEN FALSE
  ELSE WholeFrom(Tail(s))

RECURSIVE AfterPoint(_)
AfterPoint(s) ==
  IF s = << >> THEN s
  ELSE IF Head(s) = "." THEN Tail(s)
  ELSE AfterPoint(Tail(s))

\* constraint validation of the form: the name and the email are required,
\* and the custom amount, when filled in, is a number from min="1" in steps
\* of 1
DonateFormInvalid ==
  \/ donor.donor_name = << >>
  \/ donor.donor_email = << >>
  \/ /\ customAmount # << >>
     /\ \/ BelowOne(ParseInt(customAmount))
        \/ ~WholeFrom(AfterPoint(customAmount))

offDonate == <<page, searchState, superseded, shownStale, lastDelivered,
               track, suggestVars, gapVars, chatVars, bulkVars, callbackVars,
               audioVars, lastAuth, authVars, dialogVars, adminVars,
               serverVars, moderationGhosts, store, inputText, sourceText,
               isRecording, micPending, recorder, dictRecorders,
               transcribing, heard>>

\* onChange of the name and of the email input
TypeDonor(name, email) ==
  /\ page = "donate"
  /\ donor' = [donor_name |-> name, donor_email |-> email]
  /\ UNCHANGED <<selectedAmount, customAmount, donateLoading, checkouts,
                 toast, offDonate>>

\* onClick of a preset button
SelectPreset(amt) ==
  /\ page = "donate"
  /\ selectedAmount' = amt
  /\ customAmount' = << >>
  /\ UNCHANGED <<donor, donateLoading, checkouts, toast, offDonate>>

\* onChange of the custom amount input
TypeCustom(text) ==
  /\ page = "donate"
  /\ customAmount' = text
  /\ selectedAmount' = 0
  /\ UNCHANGED <<donor, donateLoading, checkouts, toast, offDonate>>

\* handleDonate up to the await of axios.post
HandleDonate ==
  LET amount == Amount(customAmount, selectedAmount) IN
  /\ page = "donate"
  /\ IF ~Truthy(donor.donor_name) \/ ~Truthy(donor.donor_email)
     THEN /\ toast' = Toast("error", "Please fill in your name and email")
          /\ UNCHANGED <<donateLoading, checkouts>>
     ELSE IF Falsy(amount) \/ BelowOne(amount)
     THEN /\ toast' = Toast("error",
                            "Please select or enter a donation amount")
          /\ UNCHANGED <<donateLoading, checkouts>>
     ELSE /\ Len(checkouts) < MaxCheckouts
          /\ donateLoading' = TRUE
          /\ checkouts' = Append(checkouts,
                                 [st |-> "sent",
                                  amount |-> Cents(amount),
                                  currency |-> "usd",
                                  donor_name |-> donor.donor_name,
                                  donor_email |-> donor.donor_email])
          /\ UNCHANGED toast

\* a click on the submit button, enabled unless loading || !amount, or Enter
\* in an input: the submit event follows the form's constraint validation
RequestDonate ==
  /\ ~donateLoading
  /\ ~Falsy(Amount(customAmount, selectedAmount))
  /\ ~DonateFormInvalid
  /\ HandleDonate
  /\ UNCHANGED <<donor, selectedAmount, customAmount, offDonate>>

\* A submit event reaches the form without the browser's check (a script's
\* dispatchEvent, as component tests do)
DispatchDonate ==
  /\ HandleDonate
  /\ UNCHANGED <<donor, selectedAmount, customAmount, offDonate>>

\* the server answers a checkout request: a checkout URL, a body without
\* one, or an error
ServeCheckout(i, answer) ==
  /\ page = "donate"
  /\ i \in 1..Len(checkouts)
  /\ checkouts[i].st = "sent"
  /\ checkouts' = [checkouts EXCEPT ![i].st = answer]
  /\ UNCHANGED <<donor, selectedAmount, customAmount, donateLoading,
                 toast, offDonate>>

\* window.location.href = response.data.checkout_url: the browser leaves
\* the application, and with it the requests still in flight
CheckoutRedirects(i) ==
  /\ page = "donate"
  /\ i \in 1..Len(checkouts)
  /\ checkouts[i].st = "url"
  /\ checkouts' = << >>
  /\ page' = "checkout"
  /\ UNCHANGED <<donor, selectedAmount, customAmount, donateLoading, toast,
                 searchState, superseded, shownStale, lastDelivered,
                 track, suggestVars, gapVars, chatVars, bulkVars,
                 callbackVars, audioVars, lastAuth, authVars, dialogVars,
                 adminVars, serverVars, moderationGhosts, store, inputText,
                 sourceText, isRecording, micPending, recorder,
                 dictRecorders, transcribing, heard>>

\* the catch branch of handleDonate, also taken for a body without a URL
CheckoutFails(i) ==
  /\ page = "donate"
  /\ i \in 1..Len(checkouts)
  /\ checkouts[i].st \in { "nourl", "failed" }
  /\ checkouts' = RemoveAt(checkouts, i)
  /\ toast' = Toast("error", "Failed to process donation. Please try again.")
  /\ donateLoading' = FALSE
  /\ UNCHANGED <<donor, selectedAmount, customAmount, offDonate>>

InitDonate ==
  /\ track = "donate"
  /\ page = "donate"
  /\ VoiceIdle
  /\ AuthIdle
  /\ DialogsIdle
  /\ AdminIdle
  /\ ServerInit
  /\ ChatIdle
  /\ BulkIdle
  /\ LaterIdle
  /\ searchQuery = << >>
  /\ searchLanguage = "both"
  /\ soundGroupFilter = ""
  /\ verifiedOnly = FALSE
  /\ entries = {}
  /\ loading = FALSE
  /\ timer = NoTimer
  /\ fetches = << >>
  /\ store = SeedStore
  /\ toast = NoToast
  /\ superseded = 0
  /\ shownStale = FALSE
  /\ lastDelivered = {}
  /\ burst = 0
  /\ firedAfterBurst = FALSE

NextDonate ==
  \/ \E n \in DonorTexts, e \in DonorTexts : TypeDonor(n, e)
  \/ \E amt \in PresetsClicked : SelectPreset(amt)
  \/ \E t \in CustomTexts : TypeCustom(t)
  \/ RequestDonate
  \/ DispatchDonate
  \/ \E i \in 1..MaxCheckouts, answer \in { "url", "nourl", "failed" } :
       ServeCheckout(i, answer)
  \/ \E i \in 1..MaxCheckouts : CheckoutRedirects(i)
  \/ \E i \in 1..MaxCheckouts : CheckoutFails(i)

SpecDonate == InitDonate /\ [][NextDonate]_vars

----------------------------------------------------------------------------
\* DictionaryCard: playAudio and POST /voice/synthesize

offAudio == <<page, searchState, superseded, shownStale, lastDelivered,
              track, suggestVars, gapVars, chatVars, bulkVars, callbackVars,
              donateVars, lastAuth, authVars, dialogVars, adminVars,
              serverVars, moderationGhosts, store, inputText, sourceText,
              isRecording, micPending, recorder, dictRecorders,
              transcribing, heard>>

\* playAudio of the card of entry c, up to the await of axios.post; the play
\* button is disabled while isPlaying
PlayAudio(c) ==
  /\ page = "dictionary"
  /\ c \in IdsOf(entries)
  /\ ~isPlaying[c]
  /\ Len(synth[c]) < MaxInflight
  /\ isPlaying' = [isPlaying EXCEPT ![c] = TRUE]
  /\ synth' = [synth EXCEPT ![c] = Append(@, "sent")]
  /\ UNCHANGED <<audio, toast, offAudio>>

\* the text-to-speech endpoint answers request i of card c: base64 audio, a
\* body without audio, or an error
ServeSynth(c, i, answer) ==
  /\ i \in 1..Len(synth[c])
  /\ synth[c][i] = "sent"
  /\ synth' = [synth EXCEPT ![c][i] = answer]
  /\ UNCHANGED <<isPlaying, audio, toast, offAudio>>

\* response.data.audio is there: new Audio(...), its handlers, audio.play()
SynthPlays(c, i) ==
  /\ i \in 1..Len(synth[c])
  /\ synth[c][i] = "audio"
  /\ synth' = [synth EXCEPT ![c] = RemoveAt(@, i)]
  /\ audio' = [audio EXCEPT ![c] = "playing"]
  /\ UNCHANGED <<isPlaying, toast, offAudio>>

\* a 2xx answer without audio: the if is skipped and playAudio returns
SynthWithoutAudio(c, i) ==
  /\ i \in 1..Len(synth[c])
  /\ synth[c][i] = "empty"
  /\ synth' = [synth EXCEPT ![c] = RemoveAt(@, i)]
  /\ UNCHANGED <<isPlaying, audio, toast, offAudio>>

\* the catch branch of playAudio
SynthFails(c, i) ==
  /\ i \in 1..Len(synth[c])
  /\ synth[c][i] = "failed"
  /\ synth' = [synth EXCEPT ![c] = RemoveAt(@, i)]
  /\ toast' = Toast("error", "Could not play audio")
  /\ isPlaying' = [isPlaying EXCEPT ![c] = FALSE]
  /\ UNCHANGED <<audio, offAudio>>

\* audio.onended
AudioEnded(c) ==
  /\ audio[c] = "playing"
  /\ audio' = [audio EXCEPT ![c] = "none"]
  /\ isPlaying' = [isPlaying EXCEPT ![c] = FALSE]
  /\ UNCHANGED <<synth, toast, offAudio>>

\* audio.onerror
AudioError(c) ==
  /\ audio[c] = "playing"
  /\ audio' = [audio EXCEPT ![c] = "none"]
  /\ isPlaying' = [isPlaying EXCEPT ![c] = FALSE]
  /\ UNCHANGED <<synth, toast, offAudio>>

\* The loaded dictionary page, with the cards of the seeded entries
InitAudio ==
  /\ track = "audio"
  /\ DictionaryLoaded

\* What the request of card c, its continuation and its Audio element do
Answered(c) ==
  \E i \in 1..MaxInflight :
    \/ \E answer \in { "audio", "empty", "failed" } : ServeSynth(c, i, answer)
    \/ SynthPlays(c, i)
    \/ SynthWithoutAudio(c, i)
    \/ SynthFails(c, i)

NextAudio ==
  \/ \E c \in AudioCards : PlayAudio(c)
  \/ \E c \in AudioCards, i \in 1..MaxInflight,
        answer \in { "audio", "empty", "failed" } : ServeSynth(c, i, answer)
  \/ \E c \in AudioCards, i \in 1..MaxInflight : SynthPlays(c, i)
  \/ \E c \in AudioCards, i \in 1..MaxInflight : SynthWithoutAudio(c, i)
  \/ \E c \in AudioCards, i \in 1..MaxInflight : SynthFails(c, i)
  \/ \E c \in AudioCards : AudioEnded(c)
  \/ \E c \in AudioCards : AudioError(c)

SpecAudio == InitAudio /\ [][NextAudio]_vars

\* Every request is answered, every continuation runs, and every Audio
\* element that plays ends or fails
SpecAudioFair ==
  /\ SpecAudio
  /\ \A c \in AudioCards :
       /\ WF_vars(Answered(c))
       /\ WF_vars(AudioEnded(c) \/ AudioError(c))

----------------------------------------------------------------------------
\* Properties of the edit suggestions

\* C11: a submit of the suggest dialog issues one suggest-edit request for
\* the dialog's entry and no other request; its changes carry the word key
\* iff the word field is non-empty and the translation key iff the
\* translation field is non-empty, each with the field's text; and no step
\* of a suggestion (submit, the server's handling, its answer, closing the
\* dialog) changes the displayed list, the stored entries or the searches in
\* flight.
C11_SuggestionLeavesEntryAlone ==
  [][ /\ Len(suggests') > Len(suggests) =>
           LET r == suggests'[Len(suggests')]
           IN  /\ Len(suggests') = Len(suggests) + 1
               /\ r.id = suggestingEntry
               /\ \A k \in { "maay_word", "english_translation" } :
                    /\ k \in DOMAIN r.changes <=> suggestForm[k] # << >>
                    /\ k \in DOMAIN r.changes => r.changes[k] = suggestForm[k]
               /\ UNCHANGED <<saves, fetches, mutations, rounds>>
      /\ (suggests' # suggests \/ suggestionStore' # suggestionStore) =>
           UNCHANGED <<entries, store, fetches, loading>>
    ]_vars

\* the server holds a suggestion for entry 1 that changes only the word, the
\* page shows the success toast, the entry is what it was and nothing is
\* being fetched
C11_Witness ==
  /\ \E g \in suggestionStore :
       /\ g.entry_id = 1
       /\ DOMAIN g.changes = { "maay_word" }
       /\ g.changes.maay_word = <<"b">>
  /\ toast = Toast("success", "Edit suggestion submitted for review!")
  /\ suggests = << >>
  /\ ~SuggestOpen
  /\ store = SeedStore
  /\ entries = Search(SeedStore, BuildParams(<< >>, "both", "", FALSE))
  /\ fetches = << >>

----------------------------------------------------------------------------
\* Properties of the vocabulary gaps

HasCandidate(gs, id) == id \in GapIdsOf(gs) /\ GapOf(gs, id).suggested_maay # << >>

\* C12: a gap without a candidate is never approved.  No approved gap of the
\* server is without a candidate; an approve request the page issues is for
\* a gap that the list shows with a non-empty candidate and that has one on
\* the server; and a step in which a gap had no candidate leaves it
\* unapproved, and creates no entry when it is the refusal of an approve
\* request for that gap.
C12_NoApprovalWithoutCandidate ==
  /\ [](\A g \in gapStore : g.status = "approved" =>
                               g.suggested_maay # << >>)
  /\ [][ /\ Len(mutations') > Len(mutations) =>
              LET m == mutations'[Len(mutations')]
              IN  m.op = "gap-approve" =>
                    /\ HasCandidate(vocabularyGaps, m.id)
                    /\ HasCandidate(gapStore, m.id)
         /\ \A g \in gapStore :
              g.suggested_maay = << >> =>
                /\ GapOf(gapStore', g.gap_id).status = g.status
                /\ approval' # approval /\ approval'.id = g.gap_id =>
                     /\ approval'.answer = "refused"
                     /\ UNCHANGED <<store, nextId, gapStore>>
       ]_vars

\* the server refused an approve of gap 1, which is pending without a
\* candidate, and approved gap 2 on this admin's request, and no entry but
\* the one of gap 2 was created
C12_Witness ==
  /\ approval = [id |-> 1, answer |-> "refused"]
  /\ GapOf(gapStore, 1) = Gap(1, <<"e">>, << >>, "pending")
  /\ GapOf(gapStore, 2).status = "approved"
  /\ \E i \in 1..Len(mutations) :
       mutations[i].op = "gap-approve" /\ mutations[i].st = "ok"
  /\ IdsOf(store) = IdsOf(SeedStore) \cup { 3 }

\* The entries of st that an approve of gap g creates
CreatedFrom(st, g) ==
  { e \in st \ SeedStore : /\ e.maay_word = g.suggested_maay
                           /\ e.english_translation = g.english_term
                           /\ e.is_verified }

Approving(g) ==
  g.status = "pending" /\ GapOf(gapStore', g.gap_id).status = "approved"

GapsServed(i) ==
  /\ i \in 1..Len(rounds)
  /\ Len(rounds') >= Len(rounds)
  /\ ~rounds[i].gaps.served
  /\ rounds'[i].gaps.served

SuggestServed(i) ==
  /\ i \in 1..Len(mutations)
  /\ Len(mutations') = Len(mutations)
  /\ mutations[i].op = "gap-suggest"
  /\ mutations[i].st = "sent"
  /\ mutations'[i].st # "sent"

\* C15: a suggest request for a pending gap is accepted and makes its text
\* the gap's candidate, whether the gap had none or had another one, and
\* changes nothing else of the gap; a card issues at most one suggest request
\* per Save, for its own gap with the text of its input; and the text of a
\* suggest request is never empty or made of blanks only.
C15_SuggestAttachesOrOverwrites ==
  /\ [](\A i \in 1..Len(mutations) :
          mutations[i].op = "gap-suggest" =>
            \E k \in 1..Len(mutations[i].body) : mutations[i].body[k] # " ")
  /\ [][ /\ \A i \in 1..Len(mutations) :
              LET m == mutations[i]
              IN  SuggestServed(i) /\ GapOf(gapStore, m.id).status = "pending" =>
                    /\ mutations'[i].st = "ok"
                    /\ GapOf(gapStore', m.id) =
                         [GapOf(gapStore, m.id) EXCEPT !.suggested_maay = m.body]
         /\ Len(mutations') > Len(mutations) =>
              LET m == mutations'[Len(mutations')]
              IN  m.op = "gap-suggest" =>
                    /\ Len(mutations') = Len(mutations) + 1
                    /\ Listed(m.id)
                    /\ m.body = gapCards[m.id].suggestion
       ]_vars

\* the page lists gap 1 with the candidate another admin gave it, and the
\* server has replaced that candidate by the text this admin saved from the
\* card before the list was refreshed
C15_Witness ==
  /\ Gap(1, <<"e">>, <<"v">>, "pending") \in vocabularyGaps
  /\ mutations = << [Mutation("gap-suggest", 1, <<"w">>) EXCEPT !.st = "ok"] >>
  /\ GapOf(gapStore, 1) = Gap(1, <<"e">>, <<"w">>, "pending")

----------------------------------------------------------------------------
\* Properties of the chat

\* C20: when a send fails, the message list is again what it was before the
\* send (the user message just appended is removed, and nothing else); when
\* it succeeds, the list is what it was before the send followed by the user
\* message and the assistant's reply.
C20_SendFailureRollsBack ==
  [][ ChatInFlight =>
        /\ chat'.st = "failed" => messages' = chat.before
        /\ chat'.st = "succeeded" =>
             messages' = chat.before \o << Message("user", chat.message),
                                           Message("assistant", Reply) >>
    ]_vars

----------------------------------------------------------------------------
\* Properties of the routes

\* The client sends an admin request in this step: the GETs of fetchData, or
\* the request of a handler of AdminPage
AdminRequestIssued ==
  Len(rounds') > Len(rounds) \/ Len(mutations') > Len(mutations)

\* C16: AdminPage is mounted only when the auth check has finished with a
\* user whose is_admin is true, and the client issues an admin request only
\* while the auth check has finished and the user is present and is an admin.
C16_AdminRequestsOnlyAsAdmin ==
  /\ [](page = "admin" => ~authPending /\ user.signedIn /\ user.is_admin)
  /\ [][ AdminRequestIssued =>
           ~authPending' /\ user'.signedIn /\ user'.is_admin ]_vars

\* C17: when the /admin route settles for a signed-in user without the admin
\* flag, AdminPage renders its access-denied card.
C17_NonAdminSeesAccessDenied ==
  [][ ( /\ page = "gate"
        /\ page' # "gate"
        /\ user'.signedIn
        /\ ~user'.is_admin ) => AccessDenied' ]_vars


----------------------------------------------------------------------------
\* Properties of the mutating requests

\* The step in which a handler of AdminPage, or onSave or onSubmit of
\* DictionaryPage, runs on after its await: its request is in flight no more
AdminCompletes == Len(mutations') < Len(mutations)

SaveCompletes == Len(saves') < Len(saves)

SuggestCompletes == Len(suggests') < Len(suggests)

Completes == AdminCompletes \/ SaveCompletes \/ SuggestCompletes

\* The step in which a request is sent
Issues ==
  \/ Len(mutations') > Len(mutations)
  \/ Len(saves') > Len(saves)
  \/ Len(suggests') > Len(suggests)

\* The step in which the answers of a fetchData round, or the answer of a
\* fetchEntries, are put in the lists
RoundApplied(i) ==
  /\ i \in 1..Len(rounds)
  /\ rounds' = RemoveAt(rounds, i)
  /\ pendingEntries' = rounds[i].pending.data
  /\ vocabularyGaps' = rounds[i].gaps.data
  /\ grammarRules' = rounds[i].grammar.data
  /\ stats' = "loaded"

FetchApplied(i) ==
  /\ i \in 1..Len(fetches)
  /\ fetches' = RemoveAt(fetches, i)
  /\ entries' = Search(store, fetches[i])

\* C18: a mutation of AdminPage, or an add or edit of DictionaryPage, that
\* succeeded is followed at once by a fetch of the page's lists, and the
\* answer of a fetch replaces the lists unless the fetch fails; a mutation
\* that failed is followed by no fetch and leaves the lists as they are
C18_RefetchAfterSuccessOnly ==
  [][ /\ ( AdminCompletes /\ toast'.kind = "success" ) =>
           /\ rounds' = Append(rounds, NewRound)
           /\ adminLoading'
           /\ adminLists' = adminLists
      /\ ( SaveCompletes /\ toast'.kind = "success" ) =>
           /\ Len(fetches') = Len(fetches) + 1
           /\ loading'
           /\ entries' = entries
      /\ ( Completes /\ toast'.kind # "success" ) =>
           /\ rounds' = rounds
           /\ fetches' = fetches
           /\ adminLists' = adminLists
           /\ entries' = entries
      /\ Len(rounds') < Len(rounds) =>
           \/ \E i \in 1..Len(rounds) : RoundApplied(i)
           \/ /\ toast' = Toast("error", "Failed to load admin data")
              /\ adminLists' = adminLists
      /\ Len(fetches') < Len(fetches) =>
           \/ \E i \in 1..Len(fetches) : FetchApplied(i)
           \/ /\ toast' = Toast("error", "Failed to load dictionary")
              /\ entries' = entries ]_vars

\* An approved entry is off the list of pending entries once the fetch that
\* follows the approve is answered
C18_Witness ==
  /\ track = "entry-mutations"
  /\ toast = Toast("success", "Entry approved!")
  /\ mutations = << >>
  /\ rounds = << >>
  /\ stats = "loaded"
  /\ pendingEntries = PendingOf(store)
  /\ PendingOf(store) # PendingOf(SeedStore)

\* The completing step takes request i out of flight (the dialog that closes
\* with it leaves the other requests without their component)
Alike(a, b) == [a EXCEPT !.live = TRUE] = [b EXCEPT !.live = TRUE]

Taken(before, after, i) ==
  /\ i \in 1..Len(before)
  /\ Len(after) = Len(before) - 1
  /\ \A k \in 1..Len(after) : Alike(after[k], RemoveAt(before, i)[k])

\* The server carried out the request that the step completes
CarriedOut ==
  \/ \E i \in 1..Len(mutations) :
       Taken(mutations, mutations', i) /\ mutations[i].st = "ok"
  \/ \E i \in 1..Len(saves) :
       Taken(saves, saves', i) /\ saves[i].st = "ok"
  \/ \E i \in 1..Len(suggests) :
       Taken(suggests, suggests', i) /\ suggests[i].st = "ok"

\* C19: the step that completes a mutating request leaves one notification,
\* of success only if the server carried the request out and always if the
\* handler runs on to its fetch, of failure otherwise; that step sends no
\* request, and a request is sent only by a step that completes none
C19_OneNotificationNoRetry ==
  [][ /\ Completes =>
           /\ toast'.kind \in { "success", "error" }
           /\ toast'.kind = "success" => CarriedOut
           /\ ( Len(rounds') > Len(rounds) \/ Len(fetches') > Len(fetches) )
                => toast'.kind = "success"
           /\ ~Issues
      /\ Issues =>
           /\ ~Completes
           /\ Len(rounds') >= Len(rounds)
           /\ Len(fetches') >= Len(fetches)
           /\ toast' = toast ]_vars

\* A grammar rule whose request failed: the failure is shown, nothing is in
\* flight
C19_Witness ==
  /\ track = "grammar-mutations"
  /\ toast = Toast("error", "Failed to add grammar rule")
  /\ mutations = << >>
  /\ rounds = << >>
  /\ grammarRules = grammarStore
  /\ stats = "loaded"


----------------------------------------------------------------------------
\* Properties of the bulk upload

\* The texts of the textarea that are JSON arrays
JsonArrays ==
  { <<"[", "]">>, <<"[", "e", "]">>, <<"[", "e", ",", "e", "]">>,
    <<"[", "1", "]">> }

\* The step in which an upload request is sent
BulkIssued ==
  /\ Len(mutations') = Len(mutations) + 1
  /\ mutations'[Len(mutations')].op = "bulk"

\* The step in which the server carries out an upload
BulkServed(i) ==
  /\ i \in 1..Len(mutations)
  /\ mutations[i].op = "bulk"
  /\ mutations[i].st = "sent"
  /\ mutations'[i].st = "ok"

----------------------------------------------------------------------------
\* Properties of the sign-in

\* The page was loaded without a session id in its fragment and shows
\* AuthCallback
NoSessionId == page = "callback" /\ ~Truthy(SessionId(urlHash))

\* C22: AuthCallback sends POST /auth/session at most once in a visit,
\* however often its effect runs, and only for a fragment with a session id;
\* without one it sends no exchange, its steps set no user (the user changes
\* only with the answer of checkAuth), it shows the error state once its
\* effect has run, and it navigates to the home page in the end
C22_ExchangeAtMostOnce ==
  /\ [](exchange.issued <= 1)
  /\ [][ exchange'.issued > exchange.issued =>
           /\ exchange.issued = 0
           /\ page = "callback"
           /\ Truthy(SessionId(urlHash)) ]_vars
  /\ [](NoSessionId => exchange.issued = 0 /\ (hasProcessed => cbError))
  /\ [][ ( NoSessionId /\ user' # user ) => me.st # "none" /\ me'.st = "none" ]_vars
  /\ (NoSessionId ~> page = "landing")

\* The effect has run twice on a fragment with a session id, and the one
\* exchange has signed the user in
C22_Witness ==
  /\ effectRuns = 2
  /\ exchange = [st |-> "done", issued |-> 1]
  /\ user.signedIn
  /\ page = "landing"

\* C24: from a user set by the answer of POST /auth/session or of POST
\* /auth/login until logout is invoked, the user of AuthContext is not null
C24_SignedInUntilLogout ==
  (lastAuth = "in" /\ logoutPending = "no") => user.signedIn

\* C30: the step that completes logout sets the user to null, whether the
\* request was handled or not, and from then on, until a sign-in response
\* sets a user, the user is null and a protected route renders the spinner
\* of a pending checkAuth or the redirect to /login
C30_SignedOutAfterLogout ==
  /\ [][ ( logoutPending # "no" /\ logoutPending' = "no" ) =>
           ~user'.signedIn ]_vars
  /\ [](lastAuth = "out" =>
          /\ ~user.signedIn
          /\ ProtectedRoute(user, authPending) \in { "gate", "login" })

----------------------------------------------------------------------------
\* Properties of the donation

\* C23: a step that issues a checkout request issues one, with a name and an
\* email that are not empty and an amount on the donate button (the parsed
\* custom amount if one is typed, the preset otherwise) that is a whole
\* number of at least 1; the request carries 100 times that amount and the
\* name and email of the form; and a step that selects a preset leaves the
\* custom amount empty
C23_CheckoutAmountInCents ==
  /\ [][ Len(checkouts') > Len(checkouts) =>
           LET shown == IF customAmount # << >> THEN ParseInt(customAmount)
                        ELSE Num(selectedAmount)
               sent == checkouts'[Len(checkouts')]
           IN  /\ Len(checkouts') = Len(checkouts) + 1
               /\ donor.donor_name # << >>
               /\ donor.donor_email # << >>
               /\ ~shown.nan
               /\ shown.n \in Nat
               /\ shown.n >= 1
               /\ sent.amount = 100 * shown.n
               /\ sent.donor_name = donor.donor_name
               /\ sent.donor_email = donor.donor_email ]_vars
  /\ [][ ( selectedAmount' # selectedAmount /\ selectedAmount' # 0 ) =>
           customAmount' = << >> ]_vars

\* A donation failed, and the next one is on its way with the custom amount
\* 5 typed over the preset
C23_Witness ==
  /\ toast = Toast("error", "Failed to process donation. Please try again.")
  /\ donateLoading
  /\ Len(checkouts) = 1
  /\ checkouts[1].amount = 500
  /\ checkouts[1].st = "sent"
  /\ customAmount = <<"5">>
  /\ selectedAmount = 0

----------------------------------------------------------------------------
\* Properties of the search requests under filter changes

\* C25: every step that issues a dictionary search request appends one
\* request that carries the search text, language side, sound group and
\* verified-only flag selected when it is issued, also when the step is the
\* expiry of a debounce timeout armed before a filter was changed
C25_RequestCarriesSelectionAtIssue ==
  [][ Len(fetches') > Len(fetches) =>
        /\ fetches' = Append(fetches, Last(fetches'))
        /\ Carries(Last(fetches'), searchQuery', searchLanguage',
                   soundGroupFilter', verifiedOnly')
    ]_vars

----------------------------------------------------------------------------
\* Properties of the admin refresh

\* Round i resolves in this step: every list is replaced by the answer the
\* round holds for it, and nothing is notified
RoundResolves(i) ==
  /\ i \in 1..Len(rounds)
  /\ rounds[i].pending.served /\ rounds[i].gaps.served
  /\ rounds[i].grammar.served
  /\ rounds' = RemoveAt(rounds, i)
  /\ stats' = "loaded"
  /\ pendingEntries' = rounds[i].pending.data
  /\ vocabularyGaps' = rounds[i].gaps.data
  /\ grammarRules' = rounds[i].grammar.data
  /\ toast' = toast

\* C26: a step that ends a round of fetchData either replaces stats, pending
\* entries, vocabulary gaps and grammar rules together by the answers of that
\* one round, or changes none of them and shows the one notification "Failed
\* to load admin data"; either way loading is false after it; and no other
\* step changes any of the four
C26_RefreshAllOrNothing ==
  /\ [][ Len(rounds') < Len(rounds) =>
           /\ Len(rounds') = Len(rounds) - 1
           /\ adminLoading' = FALSE
           /\ \/ \E i \in 1..Len(rounds) : RoundResolves(i)
              \/ /\ adminLists' = adminLists
                 /\ toast' = Toast("error", "Failed to load admin data") ]_vars
  /\ [][ adminLists' # adminLists =>
           \E i \in 1..Len(rounds) : RoundResolves(i) ]_vars

\* A round failed after an entry was approved: the list still shows the
\* entry, and the failure was notified
C26_Witness ==
  /\ rounds = << >>
  /\ ~adminLoading
  /\ toast = Toast("error", "Failed to load admin data")
  /\ pendingEntries # {}
  /\ pendingEntries # PendingOf(store)

----------------------------------------------------------------------------
\* Properties of the form dialogs

\* The request of handler op fails in this step: it leaves the requests in
\* flight and the handler's failure toast is shown
HandlerFails(op) ==
  /\ toast' = FailureToast(op)
  /\ \E i \in 1..Len(mutations) :
       /\ mutations[i].op = op
       /\ mutations' = RemoveAt(mutations, i)

\* C27: a step in which the request of a submitted form fails leaves the
\* form's dialog as open as it was and its input as typed, for the add and
\* the edit word dialog, the suggest-edit dialog, the add-grammar dialog and
\* the bulk upload dialog
C27_FailedSubmitKeepsDialog ==
  [][ /\ ( Len(saves') < Len(saves) /\ toast'.kind = "error" ) =>
           UNCHANGED <<showAddDialog, editingEntry, wordForm>>
      /\ ( Len(suggests') < Len(suggests) /\ toast'.kind = "error" ) =>
           UNCHANGED <<suggestingEntry, suggestForm>>
      /\ HandlerFails("grammar") => UNCHANGED <<grammarOpen, grammarForm>>
      /\ HandlerFails("bulk") => UNCHANGED <<bulkOpen, jsonData>>
    ]_vars

----------------------------------------------------------------------------
\* Properties of the pronunciation

\* C28: a card has at most one synthesize request in flight, a request is
\* issued only while the card's isPlaying is false, and whenever isPlaying
\* is true it is false again later, whatever the answer was
C28_PlayButtonComesBack ==
  /\ [](\A c \in AudioCards : Len(synth[c]) <= 1)
  /\ [][ \A c \in AudioCards :
           Len(synth'[c]) > Len(synth[c]) => ~isPlaying[c] ]_vars
  /\ \A c \in AudioCards : ( isPlaying[c] ~> ~isPlaying[c] )

----------------------------------------------------------------------------
\* Properties of the cleared conversation

\* The conversation as clearConversation leaves it
Fresh == messages = << Cleared >> /\ conversationId = 0

\* C29: the step of clearConversation leaves the single "Conversation
\* cleared" message and no conversation id, and from such a state every step
\* other than a new send keeps both, in particular the answer or the failure
\* of a request that was in flight when the conversation was cleared
C29_ClearedStaysFresh ==
  /\ [][ ( toast' = Toast("success", "Conversation cleared")
           /\ toast' # toast ) => Fresh' ]_vars
  /\ [][ ( Fresh /\ ~( chat'.st = "sent" /\ chat' # chat ) ) => Fresh' ]_vars

============================================================================
